---- MODULE Spec2Model ----
(***************************************************************************)
(* Retry decision engine of the cloud-service-client HTTP client.          *)
(*                                                                         *)
(* JavaScript objects are modelled as functions whose DOMAIN is the set of *)
(* keys the object has: a key that is absent reads as `undefined', object  *)
(* spread {...a, ...b} is Spread(a, b), and a destructuring default        *)
(* `const { k = d } = o' is Get(o, "k", d).                                *)
(***************************************************************************)
EXTENDS Integers, Sequences, FiniteSets, TLC

(***************************************************************************)
(* Bounds of the model.                                                    *)
(***************************************************************************)
MaxSends == 4       \* sends of one logical request explored by the loop
MaxAttempts == 4    \* largest attempt number handed to retryWithStrategies
MaxCustom == 2      \* longest list of custom strategies in a chain

(***************************************************************************)
(* Program constants.                                                      *)
(***************************************************************************)
DEFAULT_RETRY_COUNT == 3
DEFAULT_RETRY_DELAY == 1000
DEFAULT_RETRY_DELAY_MULTIPLE == 2

(***************************************************************************)
(* JavaScript object helpers.                                              *)
(***************************************************************************)
EmptyObj == [k \in {} |-> 0]

Has(o, k) == k \in DOMAIN o

Get(o, k, d) == IF k \in DOMAIN o THEN o[k] ELSE d

Obj1(k, v) == [j \in {k} |-> v]

Spread(a, b) ==
  [k \in (DOMAIN a) \cup (DOMAIN b) |-> IF k \in DOMAIN b THEN b[k] ELSE a[k]]

\* NaN, the result of parseInt on a value with no leading digit.
NaN == 0 - 1

\* JavaScript truthiness of a number.
Truthy(n) == n # 0 /\ n # NaN

Digits == <<"0", "1", "2", "3", "4", "5", "6", "7", "8", "9">>

IsDigit(c) == \E i \in 1..10 : Digits[i] = c

DigitVal(c) == (CHOOSE i \in 1..10 : Digits[i] = c) - 1

\* parseInt(value, 10) of a header value given as its characters: the number
\* written by the leading digits, NaN when there is none.
RECURSIVE parseIntFrom(_, _, _)
parseIntFrom(chars, i, acc) ==
  IF i > Len(chars) \/ ~IsDigit(chars[i])
  THEN acc
  ELSE parseIntFrom(chars, i + 1, 10 * (IF acc = NaN THEN 0 ELSE acc) + DigitVal(chars[i]))

parseInt(chars) == parseIntFrom(chars, 1, NaN)

\* Math.pow(base, exponent) for an integer base and an exponent >= 0.
RECURSIVE mathPow(_, _)
mathPow(base, exponent) ==
  IF exponent <= 0 THEN 1 ELSE base * mathPow(base, exponent - 1)

(***************************************************************************)
(* HttpResponse: the envelope of a raw response and, when the transport    *)
(* threw, of the raw error.  A raw response is an object with the optional *)
(* keys "status", "statusText" and "headers"; an error is an object with   *)
(* the optional keys "name" and "message"; NoError stands for the `false'  *)
(* the envelope holds when the transport threw nothing.                    *)
(***************************************************************************)
NoError == [none |-> TRUE]

HttpResponse(rawResponse, error) == [rawResponse |-> rawResponse, error |-> error]

getRawResponse(response) == response.rawResponse

\* The raw response's status is read by key: an absent key is `undefined'.
hasStatus(rawResponse) == Has(rawResponse, "status")

hasHeaders(response) == Has(response.rawResponse, "headers")

getHeaders(response) == response.rawResponse["headers"]

lowerCase(name) ==
  CASE name \in {"Cookie", "COOKIE", "cOOkie", "cookie"} -> "cookie"
    [] name \in {"Authorization", "AUTHORIZATION", "authoriZation", "authorization"} -> "authorization"
    [] name \in {"Retry-After", "Retry-after", "RETRY-AFTER", "retry-after"} -> "retry-after"
    [] OTHER -> name

Redacted == <<"<redacted>">>

\* redactHeaders as a bug would have it: only the lower-case names are
\* recognised.
redactHeadersLowerCaseOnly(headers) ==
  [h \in DOMAIN headers |->
     IF h \in {"authorization", "cookie"} THEN Redacted ELSE headers[h]]

redactHeaders(headers) ==
  [h \in DOMAIN headers |->
     IF lowerCase(h) \in {"authorization", "cookie"} THEN Redacted ELSE headers[h]]

\* The error part of the summary: name and message when the error has either,
\* the error itself otherwise.
errorInfo(error) ==
  IF Has(error, "name") \/ Has(error, "message")
  THEN [k \in (DOMAIN error) \cap {"name", "message"} |-> error[k]]
  ELSE error

\* HttpResponse.toJSON: headers (redacted), status and statusText when truthy,
\* requestTime when it was set, error when there is one.  requestTime is an
\* object with the key "requestTime" when setRequestTime was called, else empty.
HttpResponse_toJSON(response, requestTime) ==
  LET raw == response.rawResponse
      h == IF Has(raw, "headers") THEN [headers |-> redactHeaders(raw["headers"])] ELSE EmptyObj
      s == IF Has(raw, "status") /\ raw["status"] # 0 THEN [status |-> raw["status"]] ELSE EmptyObj
      t == IF Has(raw, "statusText") THEN [statusText |-> raw["statusText"]] ELSE EmptyObj
      e == IF response.error # NoError THEN [error |-> errorInfo(response.error)] ELSE EmptyObj
  IN Spread(Spread(Spread(Spread(h, s), t), requestTime), e)

(***************************************************************************)
(* getRetryAfter: the Retry-After header of a response, in milliseconds.   *)
(* Only the two spellings of the permutations list are looked up; the      *)
(* first one whose value is truthy is parsed.  A header value is the       *)
(* sequence of its characters; the empty string is falsy.                  *)
(***************************************************************************)
permutations == <<"retry-after", "Retry-After">>

truthyHeader(headers, name) == Has(headers, name) /\ headers[name] # <<>>

getRetryAfter(response) ==
  IF ~hasHeaders(response)
  THEN 0
  ELSE LET headers == getHeaders(response)
           retryAfterSeconds ==
             IF truthyHeader(headers, permutations[1]) THEN parseInt(headers[permutations[1]])
             ELSE IF truthyHeader(headers, permutations[2]) THEN parseInt(headers[permutations[2]])
             ELSE 0
       IN IF retryAfterSeconds = NaN THEN NaN ELSE retryAfterSeconds * 1000

(***************************************************************************)
(* HttpOptions: the accessors of the request options.  `options' is the    *)
(* raw request configuration (keys "url", "method", "headers",             *)
(* "cloudClient" and whatever else the caller or a strategy put there).    *)
(***************************************************************************)
getClientOptions(options) == Get(options, "cloudClient", EmptyObj)

getUrl(options) == Get(options, "url", "undefined")

getRetries(options) == Get(getClientOptions(options), "retries", 0)

getRetryWait(options) == Get(getClientOptions(options), "retryWait", 0)

getRetryResponses(options) == Get(getClientOptions(options), "retryResponses", <<>>)

getRequestTime(options) ==
  LET startTime == Get(getClientOptions(options), "startTime", 0)
      endTime == Get(getClientOptions(options), "endTime", 0)
  IN IF startTime # 0 /\ endTime # 0 THEN endTime - startTime ELSE 0

\* setRequestOptions as a bug would have it: on a key of both, the value
\* already present is kept.
setRequestOptionsKeepsPrior(options, requestOptions) == Spread(requestOptions, options)

setRequestOptions(options, requestOptions) == Spread(options, requestOptions)

addClientOptions(options, newOptions) ==
  Spread(options, [cloudClient |-> Spread(getClientOptions(options), newOptions)])

\* setStartTime as a bug would have it: the end time of the attempt before
\* is left in place.
setStartTimeKeepsEndTime(options, startTime) ==
  addClientOptions(options, [startTime |-> startTime])

setStartTime(options, startTime) ==
  addClientOptions(options, [startTime |-> startTime, endTime |-> 0])

setEndTime(options, endTime) == addClientOptions(options, [endTime |-> endTime])

\* addRetry as a bug would have it: the summary is recorded but the counter
\* is left alone.
addRetryNoCount(options, response, retryDelay) ==
  addClientOptions(options,
    [retryWait |-> getRetryWait(options) + retryDelay,
     retryResponses |-> Append(getRetryResponses(options),
                               HttpResponse_toJSON(response, EmptyObj))])

\* addRetry: push the response's summary, count the retry, add the delay.
addRetry(options, response, retryDelay) ==
  addClientOptions(options,
    [retries |-> getRetries(options) + 1,
     retryWait |-> getRetryWait(options) + retryDelay,
     retryResponses |-> Append(getRetryResponses(options),
                               HttpResponse_toJSON(response, EmptyObj))])

_getRetryOptions(options) == Get(getClientOptions(options), "retry", EmptyObj)

getRetryDelay(options) == Get(_getRetryOptions(options), "delay", DEFAULT_RETRY_DELAY)

getRetryDelayMultiple(options) ==
  Get(_getRetryOptions(options), "delayMultiple", DEFAULT_RETRY_DELAY_MULTIPLE)

getMaxRetries(options) == Get(_getRetryOptions(options), "count", DEFAULT_RETRY_COUNT)

\* toRequestConfig of options that carry no additional cookies: a shallow copy.
toRequestConfig(options) == options

(***************************************************************************)
(* Retry strategies.  A strategy of the chain is [kind, options]: kind is  *)
(* the class, options the descriptor a custom strategy was built from (the *)
(* built-ins are built from none).  A descriptor is an object with the     *)
(* optional keys                                                           *)
(*   shouldRetry        the set of statuses it answers true for (NoStatus  *)
(*                      for a response without status),                    *)
(*   getDelay, getDelayMultiple, getMaxRetries   the number it returns,    *)
(*   getRequestOptions  the name of the object it returns.                 *)
(***************************************************************************)
NoStatus == 0

statusOf(rawResponse) == Get(rawResponse, "status", NoStatus)

headerOf(obj, name, d) == Get(Get(obj, "headers", EmptyObj), name, d)

\* The objects a descriptor's getRequestOptions can return: an extra
\* top-level key, a replaced url, an empty cloudClient, or the cloudClient of
\* the options the strategy was handed.
requestOptionsOf(name, retryOptions) ==
  CASE name = "hello" -> [hello |-> "world!"]
    [] name = "url" -> [url |-> "http://other"]
    [] name = "headers" -> [headers |-> Obj1("accept", <<"json">>), timeout |-> 5]
    [] name = "emptyCloudClient" -> [cloudClient |-> EmptyObj]
    [] name = "sameCloudClient" -> [cloudClient |-> Get(retryOptions.options, "cloudClient", EmptyObj)]
    [] OTHER -> EmptyObj

ErrorStatusCode_shouldRetry(retryOptions) ==
  hasStatus(retryOptions.response) /\ retryOptions.response["status"] >= 500

\* NetworkError as a bug would have it: a response without a truthy status,
\* or any server error, counts as a network error.
NetworkErrorOrServerError(retryOptions) ==
  statusOf(retryOptions.response) = NoStatus \/ statusOf(retryOptions.response) >= 500

\* NetworkError as a bug would have it: an attempt without a response is
\* not retried.
NetworkErrorIgnoresAborts(retryOptions) == FALSE

NetworkError_shouldRetry(retryOptions) == ~hasStatus(retryOptions.response)

EventuallyConsistentCreate_shouldRetry(retryOptions) ==
  hasStatus(retryOptions.response) /\ retryOptions.response["status"] = 404

\* EventuallyConsistentUpdate.shouldRetry as the end-to-end tests show it:
\* a 412 answer to the request is retried ("never consistent update": three
\* 412 answers end with retries 2), and the 200 that follows a 412 is final
\* although its etag is not the request's If-Match ("eventually consistent
\* update": retries 1).
EventuallyConsistentUpdate_shouldRetry(retryOptions) ==
  hasStatus(retryOptions.response) /\ retryOptions.response["status"] = 412

EventuallyConsistentDelete_shouldRetry(retryOptions) ==
  hasStatus(retryOptions.response) /\ retryOptions.response["status"] # 404

RetryStrategy_shouldRetry(strategy, retryOptions) ==
  /\ Has(strategy.options, "shouldRetry")
  /\ statusOf(retryOptions.response) \in strategy.options["shouldRetry"]

shouldRetry(strategy, retryOptions) ==
  CASE strategy.kind = "ErrorStatusCode" -> ErrorStatusCode_shouldRetry(retryOptions)
    [] strategy.kind = "NetworkError" -> NetworkError_shouldRetry(retryOptions)
    [] strategy.kind = "EventuallyConsistentCreate" -> EventuallyConsistentCreate_shouldRetry(retryOptions)
    [] strategy.kind = "EventuallyConsistentUpdate" -> EventuallyConsistentUpdate_shouldRetry(retryOptions)
    [] strategy.kind = "EventuallyConsistentDelete" -> EventuallyConsistentDelete_shouldRetry(retryOptions)
    [] OTHER -> RetryStrategy_shouldRetry(strategy, retryOptions)

getRetryDelayMultipleOf(strategy, retryOptions) ==
  Get(strategy.options, "getDelayMultiple", retryOptions.delayMultiple)

getRetryDelayOf(strategy, retryOptions) ==
  Get(strategy.options, "getDelay", retryOptions.delay)

getMaxRetryCount(strategy, retryOptions) ==
  Get(strategy.options, "getMaxRetries", retryOptions.maxAttempts)

getRetryRequestOptions(strategy, retryOptions) ==
  IF Has(strategy.options, "getRequestOptions")
  THEN requestOptionsOf(strategy.options["getRequestOptions"], retryOptions)
  ELSE EmptyObj

BuiltIn(kind) == [kind |-> kind, options |-> EmptyObj]

RetryStrategy(descriptor) == [kind |-> "RetryStrategy", options |-> descriptor]

RECURSIVE customStrategies(_, _)
customStrategies(strategies, i) ==
  IF i > Len(strategies) THEN <<>>
  ELSE <<RetryStrategy(strategies[i])>> \o customStrategies(strategies, i + 1)

\* getRetryStrategies as a bug would have it: the custom strategies ahead of
\* the built-in ones.
getRetryStrategiesCustomFirst(options) ==
  LET cc == getClientOptions(options)
  IN customStrategies(Get(_getRetryOptions(options), "strategies", <<>>), 1)
     \o <<BuiltIn("ErrorStatusCode"), BuiltIn("NetworkError")>>
     \o (IF Get(cc, "eventuallyConsistentCreate", FALSE)
         THEN <<BuiltIn("EventuallyConsistentCreate")>> ELSE <<>>)
     \o (IF Get(cc, "eventuallyConsistentUpdate", FALSE)
         THEN <<BuiltIn("EventuallyConsistentUpdate")>> ELSE <<>>)
     \o (IF Get(cc, "eventuallyConsistentDelete", FALSE)
         THEN <<BuiltIn("EventuallyConsistentDelete")>> ELSE <<>>)

\* getRetryStrategies as a bug would have it: eventuallyConsistentCreate is
\* not looked at.
getRetryStrategiesNoCreate(options) ==
  LET cc == getClientOptions(options)
  IN <<BuiltIn("ErrorStatusCode"), BuiltIn("NetworkError")>>
     \o customStrategies(Get(_getRetryOptions(options), "strategies", <<>>), 1)
     \o (IF Get(cc, "eventuallyConsistentUpdate", FALSE)
         THEN <<BuiltIn("EventuallyConsistentUpdate")>> ELSE <<>>)
     \o (IF Get(cc, "eventuallyConsistentDelete", FALSE)
         THEN <<BuiltIn("EventuallyConsistentDelete")>> ELSE <<>>)

\* getRetryStrategies as a bug would have it: eventuallyConsistentDelete is
\* not looked at.
getRetryStrategiesNoDelete(options) ==
  LET cc == getClientOptions(options)
  IN <<BuiltIn("ErrorStatusCode"), BuiltIn("NetworkError")>>
     \o customStrategies(Get(_getRetryOptions(options), "strategies", <<>>), 1)
     \o (IF Get(cc, "eventuallyConsistentCreate", FALSE)
         THEN <<BuiltIn("EventuallyConsistentCreate")>> ELSE <<>>)
     \o (IF Get(cc, "eventuallyConsistentUpdate", FALSE)
         THEN <<BuiltIn("EventuallyConsistentUpdate")>> ELSE <<>>)

\* getRetryStrategies: the two built-ins, the custom strategies of
\* retry.strategies in their order, then the opted-in built-ins.
getRetryStrategies(options) ==
  LET cc == getClientOptions(options)
  IN <<BuiltIn("ErrorStatusCode"), BuiltIn("NetworkError")>>
     \o customStrategies(Get(_getRetryOptions(options), "strategies", <<>>), 1)
     \o (IF Get(cc, "eventuallyConsistentCreate", FALSE)
         THEN <<BuiltIn("EventuallyConsistentCreate")>> ELSE <<>>)
     \o (IF Get(cc, "eventuallyConsistentUpdate", FALSE)
         THEN <<BuiltIn("EventuallyConsistentUpdate")>> ELSE <<>>)
     \o (IF Get(cc, "eventuallyConsistentDelete", FALSE)
         THEN <<BuiltIn("EventuallyConsistentDelete")>> ELSE <<>>)

(***************************************************************************)
(* retryWithStrategies.  The JavaScript function returns false or          *)
(* {delay, options}; the model returns a record whose `retry' field tells  *)
(* the two apart, and that also notes what the call did: the retryOptions  *)
(* handed to every strategy, how many strategies had shouldRetry called    *)
(* (consulted), which one answered true (winner, 0 for none) and what      *)
(* that one resolved (baseDelay, baseMultiple, maxRetries).                *)
(***************************************************************************)
\* The delay and multiple handed to the strategies: the configured ones, or
\* the Retry-After header's when getRetryAfter is truthy.
defaultDelay(options, retryAfter) ==
  IF Truthy(retryAfter) THEN retryAfter ELSE getRetryDelay(options)

defaultMultiple(options, retryAfter) ==
  IF Truthy(retryAfter) THEN 1 ELSE getRetryDelayMultiple(options)

\* The max-retry gate as a bug would have it: one attempt too many.
maxRetryGateLate(attempts, maxRetries) == attempts > maxRetries /\ maxRetries >= 0

\* The max-retry gate as a bug would have it: the sentinel is not exempt.
maxRetryGateNoSentinel(attempts, maxRetries) == attempts >= maxRetries

\* The max-retry gate: no retry once attempts reached a cap that is not negative.
maxRetryGate(attempts, maxRetries) == attempts >= maxRetries /\ maxRetries >= 0

\* retryDelay as a bug would have it: the exponent is the attempt number.
retryDelayOffByOne(delay, delayMultiple, attempts) ==
  delay * mathPow(delayMultiple, attempts)

retryDelay(delay, delayMultiple, attempts) ==
  delay * mathPow(delayMultiple, attempts - 1)

\* A descriptor whose function fn throws when it is called carries
\* throws = fn; the functions of a strategy are called in the order
\* shouldRetry, getDelayMultiple, getMaxRetries, getDelay, getRequestOptions.
StrategyFunctions ==
  <<"shouldRetry", "getDelayMultiple", "getMaxRetries", "getDelay", "getRequestOptions">>

throwsIn(strategy, fn) == Get(strategy.options, "throws", "none") = fn

throwsAfterShouldRetry(strategy) ==
  \E n \in 2..Len(StrategyFunctions) : throwsIn(strategy, StrategyFunctions[n])

\* What retryWithStrategies leaves behind when strategy i threw: nothing is
\* returned, the exception is on its way to the caller.
strategyThrew(retryOptions, i, strategy) ==
  [retry |-> FALSE, threw |-> strategy.options["throws"], delay |-> 0, options |-> EmptyObj,
   retryOptions |-> retryOptions, consulted |-> i, winner |-> 0,
   baseDelay |-> 0, baseMultiple |-> 0, maxRetries |-> 0]

noRetry(retryOptions, consulted, winner, strategy) ==
  [retry |-> FALSE, delay |-> 0, options |-> EmptyObj,
   retryOptions |-> retryOptions, consulted |-> consulted, winner |-> winner,
   baseDelay |-> IF winner = 0 THEN 0 ELSE getRetryDelayOf(strategy, retryOptions),
   baseMultiple |-> IF winner = 0 THEN 0 ELSE getRetryDelayMultipleOf(strategy, retryOptions),
   maxRetries |-> IF winner = 0 THEN 0 ELSE getMaxRetryCount(strategy, retryOptions)]

doRetry(retryOptions, i, strategy) ==
  [retry |-> TRUE,
   delay |-> retryDelay(getRetryDelayOf(strategy, retryOptions),
                        getRetryDelayMultipleOf(strategy, retryOptions),
                        retryOptions.attempts),
   options |-> getRetryRequestOptions(strategy, retryOptions),
   retryOptions |-> retryOptions, consulted |-> i, winner |-> i,
   baseDelay |-> getRetryDelayOf(strategy, retryOptions),
   baseMultiple |-> getRetryDelayMultipleOf(strategy, retryOptions),
   maxRetries |-> getMaxRetryCount(strategy, retryOptions)]

\* The loop as a bug would have it: a strategy stopped by its cap passes the
\* response on to the next strategy.
RECURSIVE strategyLoopFallThrough(_, _, _)
strategyLoopFallThrough(retryStrategies, i, retryOptions) ==
  IF i > Len(retryStrategies)
  THEN noRetry(retryOptions, Len(retryStrategies), 0, BuiltIn("none"))
  ELSE IF shouldRetry(retryStrategies[i], retryOptions)
            /\ ~maxRetryGate(retryOptions.attempts,
                             getMaxRetryCount(retryStrategies[i], retryOptions))
       THEN doRetry(retryOptions, i, retryStrategies[i])
       ELSE strategyLoopFallThrough(retryStrategies, i + 1, retryOptions)

\* The loop as a bug would have it: an exception of a strategy is caught
\* and the strategy counts as having answered false.
RECURSIVE strategyLoopCatches(_, _, _)
strategyLoopCatches(retryStrategies, i, retryOptions) ==
  IF i > Len(retryStrategies)
  THEN noRetry(retryOptions, Len(retryStrategies), 0, BuiltIn("none"))
  ELSE IF Has(retryStrategies[i].options, "throws")
       THEN strategyLoopCatches(retryStrategies, i + 1, retryOptions)
       ELSE IF shouldRetry(retryStrategies[i], retryOptions)
            THEN IF maxRetryGate(retryOptions.attempts,
                                 getMaxRetryCount(retryStrategies[i], retryOptions))
                 THEN noRetry(retryOptions, i, i, retryStrategies[i])
                 ELSE doRetry(retryOptions, i, retryStrategies[i])
            ELSE strategyLoopCatches(retryStrategies, i + 1, retryOptions)

\* The loop over the chain from strategy i on: the first strategy whose
\* shouldRetry answers true decides.  Nothing catches what a strategy's
\* function throws.
RECURSIVE strategyLoop(_, _, _)
strategyLoop(retryStrategies, i, retryOptions) ==
  IF i > Len(retryStrategies)
  THEN noRetry(retryOptions, Len(retryStrategies), 0, BuiltIn("none"))
  ELSE IF throwsIn(retryStrategies[i], "shouldRetry")
       THEN strategyThrew(retryOptions, i, retryStrategies[i])
       ELSE IF shouldRetry(retryStrategies[i], retryOptions)
            THEN IF throwsAfterShouldRetry(retryStrategies[i])
                 THEN strategyThrew(retryOptions, i, retryStrategies[i])
                 ELSE IF maxRetryGate(retryOptions.attempts,
                                      getMaxRetryCount(retryStrategies[i], retryOptions))
                      THEN noRetry(retryOptions, i, i, retryStrategies[i])
                      ELSE doRetry(retryOptions, i, retryStrategies[i])
            ELSE strategyLoop(retryStrategies, i + 1, retryOptions)

retryWithStrategies(options, response, attempts) ==
  LET retryAfter == getRetryAfter(response)
      retryOptions ==
        [url |-> getUrl(options),
         options |-> toRequestConfig(options),
         response |-> getRawResponse(response),
         attempts |-> attempts,
         maxAttempts |-> getMaxRetries(options),
         delayMultiple |-> defaultMultiple(options, retryAfter),
         delay |-> defaultDelay(options, retryAfter)]
  IN strategyLoop(getRetryStrategies(options), 1, retryOptions)

(***************************************************************************)
(* HttpOptions.mergeClientOptions and HttpOptions.toJSON.                  *)
(***************************************************************************)
\* mergeClientOptions as a bug would have it: the merged options win over
\* the ones already present.
mergeClientOptionsOverwrites(options, global) ==
  [j \in (DOMAIN options) \cup {"cloudClient"} |->
     IF j = "cloudClient" THEN Spread(Get(options, "cloudClient", EmptyObj), global) ELSE options[j]]

mergeClientOptions(options, global) ==
  LET clientOptions == getClientOptions(options)
      existingRetry == Get(clientOptions, "retry", EmptyObj)
      existingStrategies == Get(existingRetry, "strategies", <<>>)
      retry == Get(global, "retry", EmptyObj)
      strategies == Get(retry, "strategies", <<>>)
      newOptions == Spread(global, clientOptions)
      newRetry ==
        IF Len(existingStrategies) > 0 \/ Len(strategies) > 0
        THEN Spread(Spread(retry, existingRetry),
                    [strategies |-> existingStrategies \o strategies])
        ELSE Spread(retry, existingRetry)
  IN Spread(options,
       [cloudClient |->
          IF DOMAIN existingRetry # {} \/ DOMAIN retry # {}
          THEN Spread(newOptions, [retry |-> newRetry])
          ELSE newOptions])

\* The request id of one HttpOptions instance: the x-request-id header when
\* the options carry one, else a uuid generated for that instance (the n-th
\* the process generated).
getRequestId(options, n) == headerOf(options, "x-request-id", <<"uuid", n>>)

Without(o, k) == [j \in (DOMAIN o) \ {k} |-> o[j]]

\* The options an HttpOptions instance holds once its toJSON has run: the
\* snapshot's cloudClient is a shallow copy, its retry is the instance's own
\* retry object, and "delete cloudClient.retry.strategies" takes the
\* strategies off that object.
HttpOptions_afterToJSON(options) ==
  LET retry == _getRetryOptions(options)
  IN IF Has(getClientOptions(options), "retry") /\ Has(retry, "strategies")
     THEN Spread(options,
            [cloudClient |-> Spread(getClientOptions(options),
                                    [retry |-> Without(retry, "strategies")])])
     ELSE options

HttpOptions_toJSON(options, n) ==
  LET headers == Get(options, "headers", EmptyObj)
      defaults == [retries |-> getRetries(options),
                   retryWait |-> getRetryWait(options),
                   retryResponses |-> getRetryResponses(options)]
      merged == Spread(defaults, getClientOptions(options))
      cloudClient ==
        IF Has(merged, "retry")
        THEN Spread(merged, [retry |-> Without(merged["retry"], "strategies")])
        ELSE merged
  IN Spread(options,
       [headers |-> Spread(headers, Obj1("x-request-id", getRequestId(options, n))),
        cloudClient |-> cloudClient])

(***************************************************************************)
(* Cookies.  A URL is the record URL.parse gives: protocol, hostname (its  *)
(* labels) and pathname (its segments).  A Cookie header value is the      *)
(* sequence of its <<name, value>> pairs, a Set-Cookie value the object of *)
(* its name, value and attributes.  A cookie jar is the sequence of the    *)
(* cookies it stores, in creation order.  The jar is tough-cookie's        *)
(* CookieJar, modelled at the calls the client makes on it.                *)
(***************************************************************************)
\* Cookie.parse of one Set-Cookie value.
Cookie_parse(setCookie) ==
  Spread(Spread(Spread(Spread(Spread(
    [key |-> setCookie["key"], value |-> setCookie["value"], secure |-> Has(setCookie, "Secure")],
    IF Has(setCookie, "Domain") THEN [domain |-> setCookie["Domain"]] ELSE EmptyObj),
    IF Has(setCookie, "Path") THEN [path |-> setCookie["Path"]] ELSE EmptyObj),
    IF Has(setCookie, "Max-Age") THEN [maxAge |-> setCookie["Max-Age"]] ELSE EmptyObj),
    IF Has(setCookie, "Expires") THEN [expires |-> setCookie["Expires"]] ELSE EmptyObj),
    EmptyObj)

\* parseCookieHeader: split on "; " and Cookie.parse each pair.
parseCookieHeader(headerValue) ==
  [i \in 1..Len(headerValue) |->
     [key |-> headerValue[i][1], value |-> headerValue[i][2], secure |-> FALSE]]

\* The host is the domain or ends with "." and the domain.
domainMatch(host, domain) ==
  /\ Len(domain) <= Len(host)
  /\ SubSeq(host, Len(host) - Len(domain) + 1, Len(host)) = domain

\* The cookie's path is the request path or a directory above it.
pathMatch(reqPath, cookiePath) ==
  /\ Len(cookiePath) <= Len(reqPath)
  /\ SubSeq(reqPath, 1, Len(cookiePath)) = cookiePath

\* The request path up to its right-most "/".
defaultPath(pathname) ==
  IF Len(pathname) = 0 THEN <<>> ELSE SubSeq(pathname, 1, Len(pathname) - 1)

\* expiryTime() <= now: Max-Age before Expires, a Max-Age of zero or less is
\* always in the past, and no run lasts as long as a positive Max-Age.
isExpired(cookie, time) ==
  IF Has(cookie, "maxAge") THEN cookie["maxAge"] <= 0
  ELSE IF Has(cookie, "expires") THEN cookie["expires"] <= time
  ELSE FALSE

\* The cookie as setCookie stores it for a URL: host-only on the URL's host
\* without a Domain, on the default path without a Path.
storedCookie(cookie, url) ==
  LET scoped == IF Has(cookie, "domain")
                THEN Spread(cookie, [hostOnly |-> Get(cookie, "hostOnly", FALSE)])
                ELSE Spread(cookie, [hostOnly |-> TRUE, domain |-> url.hostname])
  IN IF Has(scoped, "path") THEN scoped
     ELSE Spread(scoped, [path |-> defaultPath(url.pathname)])

sameCookie(a, b) ==
  a["domain"] = b["domain"] /\ a["path"] = b["path"] /\ a["key"] = b["key"]

\* CookieJar.setCookie as a bug would have it: the new cookie is added next
\* to the one it should replace.
setCookieAppends(jar, cookie, url) ==
  IF Has(cookie, "domain") /\ ~domainMatch(url.hostname, cookie["domain"])
  THEN jar
  ELSE Append(jar, storedCookie(cookie, url))

\* CookieJar.setCookie: a cookie whose Domain the host is not in is rejected;
\* a cookie of the same domain, path and name is replaced where it stands.
CookieJar_setCookie(jar, cookie, url) ==
  IF Has(cookie, "domain") /\ ~domainMatch(url.hostname, cookie["domain"])
  THEN jar
  ELSE LET new == storedCookie(cookie, url)
       IN IF \E i \in 1..Len(jar) : sameCookie(jar[i], new)
          THEN [i \in 1..Len(jar) |-> IF sameCookie(jar[i], new) THEN new ELSE jar[i]]
          ELSE Append(jar, new)

\* matchingCookie as a bug would have it: Secure is not looked at.
inScopeIgnoringSecure(cookie, url) ==
  /\ IF cookie["hostOnly"] THEN cookie["domain"] = url.hostname
     ELSE domainMatch(url.hostname, cookie["domain"])
  /\ pathMatch(url.pathname, cookie["path"])

\* matchingCookie, up to its expiry check: domain, path and Secure.
inScope(cookie, url) ==
  /\ IF cookie["hostOnly"] THEN cookie["domain"] = url.hostname
     ELSE domainMatch(url.hostname, cookie["domain"])
  /\ pathMatch(url.pathname, cookie["path"])
  /\ cookie["secure"] => url.protocol = "https"

\* cookieCompare: longer paths first, then creation order.
RECURSIVE byPathLength(_, _)
byPathLength(cookies, n) ==
  LET longest == SelectSeq(cookies, LAMBDA c : Len(c["path"]) = n)
  IN IF n = 0 THEN longest ELSE longest \o byPathLength(cookies, n - 1)

\* CookieJar.getCookies: the cookies in scope that are not expired.
CookieJar_getCookies(jar, url, time) ==
  byPathLength(SelectSeq(jar, LAMBDA c : inScope(c, url) /\ ~isExpired(c, time)),
               Len(url.pathname))

\* The jar after getCookies: a cookie in scope found expired is removed.
afterGetCookies(jar, url, time) ==
  SelectSeq(jar, LAMBDA c : ~(inScope(c, url) /\ isExpired(c, time)))

\* CookieJar.getCookieString: name=value of getCookies, joined with "; ".
getCookieString(jar, url, time) ==
  LET cookies == CookieJar_getCookies(jar, url, time)
  IN [i \in 1..Len(cookies) |-> <<cookies[i]["key"], cookies[i]["value"]>>]

RECURSIVE setCookiesFrom(_, _, _, _)
setCookiesFrom(jar, cookies, i, url) ==
  IF i > Len(cookies) THEN jar
  ELSE setCookiesFrom(CookieJar_setCookie(jar, cookies[i], url), cookies, i + 1, url)

\* HttpClient.setCookies: Cookie.parse and setCookie, one value after another.
setCookies(jar, url, cookies) ==
  setCookiesFrom(jar, [i \in 1..Len(cookies) |-> Cookie_parse(cookies[i])], 1, url)

\* What a backend's getSetCookies finds in a raw response.
getSetCookies(rawResponse) == headerOf(rawResponse, "set-cookie", <<>>)

\* The names of the cookie headers of a header object, whatever their case.
cookieHeaderNames(headers) == {k \in DOMAIN headers : lowerCase(k) = "cookie"}

\* getCookieJar takes the first header named cookie in any case: the
\* caller's own spelling comes before a "cookie" that was added to it.
cookieHeader(headers) ==
  LET names == cookieHeaderNames(headers)
  IN IF names = {} THEN <<>>
     ELSE IF names = {"cookie"} THEN headers["cookie"]
     ELSE headers[CHOOSE k \in names : k # "cookie"]

\* HttpOptions.getCookieJar: a jar of the cookies of the options' own header.
getCookieJar(options) ==
  setCookiesFrom(<<>>, parseCookieHeader(cookieHeader(Get(options, "headers", EmptyObj))),
                 1, getUrl(options))

\* _getCookieLookup: the names of the cookies of the options' jar.
getCookieLookup(jar, url, time) ==
  {CookieJar_getCookies(jar, url, time)[i]["key"] :
     i \in 1..Len(CookieJar_getCookies(jar, url, time))}

RECURSIVE mergeAdditional(_, _, _, _, _)
mergeAdditional(jar, cookies, i, lookup, url) ==
  IF i > Len(cookies) THEN jar
  ELSE mergeAdditional(IF cookies[i]["key"] \in lookup THEN jar
                       ELSE CookieJar_setCookie(jar, cookies[i], url),
                       cookies, i + 1, lookup, url)

\* toRequestConfig when setAdditionalCookies was called: the additional
\* cookies whose name is not in the options' jar are added to it, and the
\* jar's cookie string becomes the "cookie" header.
toRequestConfigCookies(options, addlCookies, time) ==
  IF Len(addlCookies) = 0 THEN toRequestConfig(options)
  ELSE LET url == getUrl(options)
           jar == getCookieJar(options)
           merged == mergeAdditional(jar, addlCookies, 1, getCookieLookup(jar, url, time), url)
           cookie == getCookieString(merged, url, time)
       IN IF Len(cookie) = 0 THEN options
          ELSE Spread(options,
                 [headers |-> Spread(Get(options, "headers", EmptyObj), [cookie |-> cookie])])

(***************************************************************************)
(* Inputs: strategy descriptors, request options, global options and the   *)
(* outcomes of one transport send.                                         *)
(***************************************************************************)
AllStatuses == {NoStatus, 200, 404, 500, 503}

Always == [shouldRetry |-> AllStatuses]

Unbounded == [shouldRetry |-> AllStatuses, getMaxRetries |-> 0 - 1, getDelay |-> 1]

CappedAtOne ==
  [shouldRetry |-> {200, 404}, getMaxRetries |-> 1, getDelayMultiple |-> 10]

BelowSentinel ==
  [shouldRetry |-> {404}, getMaxRetries |-> 0 - 2, getRequestOptions |-> "hello"]

CappedAtZero == [shouldRetry |-> {200}, getMaxRetries |-> 0]

DelayOnly == [getDelay |-> 5]

SameCloudClient == [shouldRetry |-> {404}, getRequestOptions |-> "sameCloudClient"]

EmptyCloudClient == [shouldRetry |-> {404}, getRequestOptions |-> "emptyCloudClient"]

OtherUrl == [shouldRetry |-> {200}, getDelay |-> 7, getRequestOptions |-> "url"]

TenFold == [shouldRetry |-> {200}, getDelayMultiple |-> 10]

Url == "http://host/"

Request(cloudClient) == [url |-> Url, cloudClient |-> cloudClient]

WithRequestId(options) ==
  Spread(options, [headers |-> Obj1("x-request-id", <<"testing">>)])

\* The requests a caller hands to the client.
LoopRequests ==
  { [url |-> Url],
    WithRequestId(Request([retry |-> [delay |-> 10]])),
    Request([retry |-> [count |-> 2, delay |-> 10, delayMultiple |-> 3]]),
    Request([retry |-> [count |-> 1]]),
    Request([eventuallyConsistentCreate |-> TRUE]),
    Request([eventuallyConsistentDelete |-> TRUE, retry |-> [delay |-> 10]]),
    Request([eventuallyConsistentDelete |-> TRUE]),
    Request([retry |-> [delay |-> 10, strategies |-> <<Unbounded>>]]),
    Request([retry |-> [strategies |-> <<CappedAtOne, Unbounded>>]]),
    Request([retry |-> [strategies |-> <<BelowSentinel>>]]),
    Request([retry |-> [strategies |-> <<CappedAtZero, OtherUrl>>]]),
    Request([retry |-> [count |-> 2, strategies |-> <<SameCloudClient>>]]),
    Request([retry |-> [count |-> 2, strategies |-> <<EmptyCloudClient>>]]) }

\* The global options a client was given with setGlobalOptions.
GlobalOptions ==
  { EmptyObj,
    [retry |-> [strategies |-> <<[shouldRetry |-> {404}, getDelay |-> 3]>>]] }

AnError == [name |-> "Error", message |-> "boom"]

NoResponse == [none |-> TRUE]

Response(status, headers) == [status |-> status, headers |-> headers]

\* What one send can end in: a response, an error without a response, or an
\* error that carries the response it came from.
Outcomes ==
  { [response |-> Response(200, EmptyObj), error |-> NoError],
    [response |-> Response(404, EmptyObj), error |-> NoError],
    [response |-> Response(500, EmptyObj), error |-> NoError],
    [response |-> Response(503, Obj1("Retry-After", <<"2">>)), error |-> NoError],
    [response |-> NoResponse, error |-> AnError],
    [response |-> Response(500, EmptyObj), error |-> AnError] }

\* The envelope getRetryOptionsFromResponse builds: createHttpResponse(rawResponse || {}, error).
envelopeOf(outcome) ==
  HttpResponse(IF outcome.response = NoResponse THEN EmptyObj ELSE outcome.response,
               outcome.error)

(***************************************************************************)
(* State of one logical request going through the interceptor.             *)
(*   pc        where the attempt loop stands                               *)
(*   options   the request configuration threaded from attempt to attempt  *)
(*   global    the client's global options                                 *)
(*   raw       the outcome of the current attempt                          *)
(*   result    what the caller got                                         *)
(*   now       the clock read by new Date().getTime()                      *)
(*   uuids     how many request ids were generated so far                  *)
(* and, to state properties of the run,                                    *)
(*   sends     how many times the transport was asked to send              *)
(*   history   the outcomes received, in order                             *)
(*   waits     the delays slept, in order                                  *)
(*   adds      how many times addRetry was called                          *)
(*   booked    the options as addRetry left them at the last retry         *)
(*   chain     the strategies the last evaluation went through             *)
(*   decision  what the last retryWithStrategies call returned             *)
(*   request   the options as the caller handed them in                    *)
(*   jar       the client's cookie jar                                     *)
(*   handleCookies  the backend's handleCookies option                     *)
(*   cleared   clearCookies was called and nothing was stored since        *)
(*   requests  how many logical requests the client was given              *)
(*   parked    the state of a second logical request that is waiting at an *)
(*             await while the first one runs                              *)
(***************************************************************************)
VARIABLES pc, options, global, raw, result, now, uuids,
          sends, history, waits, adds, booked, chain, decision, request,
          jar, handleCookies, cleared, requests, parked

vars == <<pc, options, global, raw, result, now, uuids,
          sends, history, waits, adds, booked, chain, decision, request,
          jar, handleCookies, cleared, requests, parked>>

NoOutcome == [response |-> NoResponse, error |-> NoError]

NoDecision == [retry |-> FALSE, winner |-> 0 - 1]

NoResult == [none |-> TRUE]

\* One more uuid is generated by a stage whose options carry no x-request-id.
uuidsAfter(o, n) == IF Has(Get(o, "headers", EmptyObj), "x-request-id") THEN n ELSE n + 1

Init ==
  /\ pc = "begin"
  /\ options \in LoopRequests
  /\ global \in GlobalOptions
  /\ raw = NoOutcome
  /\ result = NoResult
  /\ now = 1
  /\ uuids = 0
  /\ sends = 0
  /\ history = <<>>
  /\ waits = <<>>
  /\ adds = 0
  /\ booked = EmptyObj
  /\ chain = <<>>
  /\ decision = NoDecision
  /\ request = options
  /\ jar = <<>>
  /\ handleCookies = FALSE
  /\ cleared = FALSE
  /\ requests = 1
  /\ parked = NoResult

\* interceptRequest -> beginBackendRequest, then the transport is asked to
\* send: the global options are merged in, under handleCookies the jar's
\* cookies for the URL are added, and the start time is recorded.
BeginRequest ==
  /\ pc = "begin"
  /\ sends < MaxSends
  /\ LET clientCookies == IF handleCookies
                          THEN CookieJar_getCookies(jar, getUrl(options), now) ELSE <<>>
     IN options' = toRequestConfigCookies(
                     setStartTime(mergeClientOptions(options, global), now), clientCookies, now)
  /\ jar' = IF handleCookies THEN afterGetCookies(jar, getUrl(options), now) ELSE jar
  /\ uuids' = uuidsAfter(options, uuids)
  /\ now' = now + 1
  /\ sends' = sends + 1
  /\ pc' = "inflight"
  /\ UNCHANGED <<global, raw, result, history, waits, adds, booked, chain, decision, request, handleCookies, cleared, requests, parked>>

\* The transport answers or throws.
Respond ==
  /\ pc = "inflight"
  /\ \E outcome \in Outcomes :
       /\ raw' = outcome
       /\ history' = Append(history, outcome)
  /\ pc' = "responded"
  /\ UNCHANGED <<options, global, result, now, uuids, sends, waits, adds, booked, chain, decision, request, jar, handleCookies, cleared, requests, parked>>

\* EndRequest as a bug would have it: Set-Cookie values are stored whether
\* or not the backend handles cookies.
EndRequestAlwaysStores ==
  /\ pc = "responded"
  /\ options' = setEndTime(options, now)
  /\ LET stores == raw.response # NoResponse
     IN /\ jar' = IF stores THEN setCookies(jar, getUrl(options), getSetCookies(raw.response))
                  ELSE jar
        /\ cleared' = (cleared /\ ~(stores /\ Len(getSetCookies(raw.response)) > 0))
  /\ uuids' = uuidsAfter(options, uuids)
  /\ now' = now + 1
  /\ pc' = "ended"
  /\ UNCHANGED <<global, raw, result, sends, history, waits, adds, booked, chain, decision, request, handleCookies, requests, parked>>

\* endBackendRequestWithResponse / endBackendRequestWithError: the end time
\* is recorded and, for a response under handleCookies, its Set-Cookie
\* values are stored in the client's jar.
EndRequest ==
  /\ pc = "responded"
  /\ options' = setEndTime(options, now)
  /\ LET stores == handleCookies /\ raw.response # NoResponse
     IN /\ jar' = IF stores THEN setCookies(jar, getUrl(options), getSetCookies(raw.response))
                  ELSE jar
        /\ cleared' = (cleared /\ ~(stores /\ Len(getSetCookies(raw.response)) > 0))
  /\ uuids' = uuidsAfter(options, uuids)
  /\ now' = now + 1
  /\ pc' = "ended"
  /\ UNCHANGED <<global, raw, result, sends, history, waits, adds, booked, chain, decision, request, handleCookies, requests, parked>>

\* The request options a strategy returned, as they are once addRetry has
\* run: a cloudClient taken from the options the strategy was handed shares
\* its retryResponses array with the one addRetry pushed to.
afterPush(requestOptions, bookedOptions) ==
  IF Has(requestOptions, "cloudClient") /\ Has(requestOptions["cloudClient"], "retryResponses")
  THEN Spread(requestOptions,
         [cloudClient |-> Spread(requestOptions["cloudClient"],
                                 [retryResponses |-> getRetryResponses(bookedOptions)])])
  ELSE requestOptions

\* Retry as a bug would have it: the request is resubmitted without the sleep.
RetryNoSleep ==
  /\ pc = "ended"
  /\ LET info == retryWithStrategies(options, envelopeOf(raw), getRetries(options) + 1)
         bookedOptions == addRetry(options, envelopeOf(raw), info.delay)
     IN /\ info.retry
        /\ decision' = info
        /\ chain' = getRetryStrategies(options)
        /\ booked' = bookedOptions
        /\ options' = setRequestOptions(bookedOptions, afterPush(info.options, bookedOptions))
  /\ adds' = adds + 1
  /\ uuids' = uuidsAfter(options, uuids)
  /\ pc' = "begin"
  /\ UNCHANGED <<global, raw, result, now, sends, history, waits, request, jar, handleCookies, cleared, requests, parked>>

\* getRetryOptionsFromResponse up to its sleep, when a strategy asks for a
\* retry: addRetry, then the strategy's request options are merged in.
Retry ==
  /\ pc = "ended"
  /\ LET info == retryWithStrategies(options, envelopeOf(raw), getRetries(options) + 1)
         bookedOptions == addRetry(options, envelopeOf(raw), info.delay)
     IN /\ info.retry
        /\ decision' = info
        /\ chain' = getRetryStrategies(options)
        /\ booked' = bookedOptions
        /\ options' = setRequestOptions(bookedOptions, afterPush(info.options, bookedOptions))
  /\ adds' = adds + 1
  /\ uuids' = uuidsAfter(options, uuids)
  /\ pc' = "sleeping"
  /\ UNCHANGED <<global, raw, result, now, sends, history, waits, request, jar, handleCookies, cleared, requests, parked>>

\* sleep(delay) is over: getRetryOptionsFromResponse returns the request
\* configuration and the interceptor hands it to backend.submitRequest.
Wake ==
  /\ pc = "sleeping"
  /\ waits' = Append(waits, decision.delay)
  /\ pc' = "begin"
  /\ UNCHANGED <<options, global, raw, result, now, uuids, sends, history, adds, booked, chain, decision, request, jar, handleCookies, cleared, requests, parked>>

\* What toClientResponse attaches as cloudClient: the extra information and
\* the envelope's summary.
clientInfo(o, response, n) == [options |-> HttpOptions_toJSON(o, n)]

\* toClientResponse as a bug would have it: the error is not thrown, the
\* raw response is returned whatever happened.
toClientResponseNeverThrows(response, requestTime, info) ==
  [thrown |-> FALSE,
   value |-> response.rawResponse,
   response |-> response.rawResponse,
   cloudClient |-> Spread(info, HttpResponse_toJSON(response, requestTime))]

\* HttpResponse.toClientResponse: cloudClient is set on the raw response, and
\* on the error when there is one; the error is thrown, or else the raw
\* response returned.  value is the object the caller gets, as the transport
\* produced it, and cloudClient the property that was set on it.
toClientResponse(response, requestTime, info) ==
  [thrown |-> response.error # NoError,
   value |-> IF response.error # NoError THEN response.error ELSE response.rawResponse,
   response |-> response.rawResponse,
   cloudClient |-> Spread(info, HttpResponse_toJSON(response, requestTime))]

\* The final result as a bug would have it: every error is finalised
\* through getClientError, the response that came with it left out.
getClientResultDropsResponse(o, outcome, n) ==
  LET envelope == IF outcome.error # NoError
                  THEN envelopeOf([response |-> NoResponse, error |-> outcome.error])
                  ELSE envelopeOf(outcome)
      made == toClientResponse(envelope, [requestTime |-> getRequestTime(o)],
                               clientInfo(o, envelope, n))
  IN [made EXCEPT !.value = IF outcome.error # NoError THEN outcome.error ELSE outcome.response,
                  !.response = outcome.response]

\* getClientResponse / getClientError: the envelope of the attempt, with the
\* request time and the options' JSON.
getClientResult(o, outcome, n) ==
  LET made == toClientResponse(envelopeOf(outcome), [requestTime |-> getRequestTime(o)],
                               clientInfo(o, envelopeOf(outcome), n))
  IN [made EXCEPT !.value = IF outcome.error # NoError THEN outcome.error ELSE outcome.response,
                  !.response = outcome.response]

\* Final as a bug would have it: the attempt that is not retried is booked
\* as a retry all the same.
FinalBooksRetry ==
  /\ pc = "ended"
  /\ LET info == retryWithStrategies(options, envelopeOf(raw), getRetries(options) + 1)
     IN /\ ~info.retry
        /\ ~Has(info, "threw")
        /\ decision' = info
        /\ chain' = getRetryStrategies(options)
  /\ result' = getClientResult(options, raw, uuidsAfter(options, uuids) + 1)
  /\ options' = addRetry(options, envelopeOf(raw), 0)
  /\ uuids' = uuidsAfter(options, uuidsAfter(options, uuids))
  /\ pc' = "done"
  /\ UNCHANGED <<global, raw, now, sends, history, waits, adds, booked, request, jar, handleCookies, cleared, requests, parked>>

\* getRetryOptionsFromResponse returns false: getClientResponse or
\* getClientError hand the response back, or throw the error; the toJSON
\* they call takes the strategies off the request configuration.
Final ==
  /\ pc = "ended"
  /\ LET info == retryWithStrategies(options, envelopeOf(raw), getRetries(options) + 1)
     IN /\ ~info.retry
        /\ ~Has(info, "threw")
        /\ decision' = info
        /\ chain' = getRetryStrategies(options)
  /\ result' = getClientResult(options, raw, uuidsAfter(options, uuids) + 1)
  /\ options' = HttpOptions_afterToJSON(options)
  /\ uuids' = uuidsAfter(options, uuidsAfter(options, uuids))
  /\ pc' = "done"
  /\ UNCHANGED <<global, raw, now, sends, history, waits, adds, booked, request, jar, handleCookies, cleared, requests, parked>>

Next == BeginRequest \/ Respond \/ EndRequest \/ Retry \/ Wake \/ Final

Spec == Init /\ [][Next]_vars

(***************************************************************************)
(* The attempt loop with strategies whose functions throw.                 *)
(***************************************************************************)
StrategyError == [name |-> "TypeError", message |-> "strategy failed"]

Throwing(fn) ==
  IF fn = "shouldRetry" THEN [throws |-> fn] ELSE [shouldRetry |-> {200, 404}, throws |-> fn]

ThrowRequests ==
  { Request([retry |-> [count |-> 2, delay |-> 10, strategies |-> <<Throwing(StrategyFunctions[n])>>]]) :
      n \in 1..Len(StrategyFunctions) }
    \cup { Request([retry |-> [count |-> 2, strategies |-> <<Throwing("shouldRetry"), Unbounded>>]]),
            Request([retry |-> [count |-> 2, strategies |-> <<CappedAtZero, Throwing("getDelay"), Unbounded>>]]),
            Request([retry |-> [count |-> 2, strategies |-> <<CappedAtOne>>]]) }

InitThrows ==
  /\ pc = "begin"
  /\ options \in ThrowRequests
  /\ global = EmptyObj
  /\ raw = NoOutcome
  /\ result = NoResult
  /\ now = 1
  /\ uuids = 0
  /\ sends = 0
  /\ history = <<>>
  /\ waits = <<>>
  /\ adds = 0
  /\ booked = EmptyObj
  /\ chain = <<>>
  /\ decision = NoDecision
  /\ request = options
  /\ jar = <<>>
  /\ handleCookies = FALSE
  /\ cleared = FALSE
  /\ requests = 1
  /\ parked = NoResult

\* A strategy's function throws inside retryWithStrategies: nothing catches
\* it in getRetryOptionsFromResponse or in the interceptor, so the request
\* is rejected with the strategy's error; addRetry, setRequestOptions, the
\* sleep and the resubmission are never reached.
StrategyThrows ==
  /\ pc = "ended"
  /\ LET info == retryWithStrategies(options, envelopeOf(raw), getRetries(options) + 1)
     IN /\ Has(info, "threw")
        /\ decision' = info
        /\ chain' = getRetryStrategies(options)
  /\ result' = [thrown |-> TRUE, value |-> StrategyError, response |-> raw.response,
                cloudClient |-> EmptyObj]
  /\ uuids' = uuidsAfter(options, uuids)
  /\ pc' = "done"
  /\ UNCHANGED <<options, global, raw, now, sends, history, waits, adds, booked, request, jar, handleCookies, cleared, requests, parked>>

NextThrows == BeginRequest \/ Respond \/ EndRequest \/ Retry \/ Wake \/ Final \/ StrategyThrows

SpecThrows == InitThrows /\ [][NextThrows]_vars

(***************************************************************************)
(* The attempt loop of requests under eventuallyConsistentUpdate, against  *)
(* a server that answers 412 or 200 with an etag of its own.               *)
(***************************************************************************)
IfMatch(tag) == Obj1("If-Match", tag)

UpdateRequests ==
  { [url |-> Url, cloudClient |-> [eventuallyConsistentUpdate |-> TRUE], headers |-> IfMatch(<<"tag-2">>)],
    [url |-> Url, cloudClient |-> [eventuallyConsistentUpdate |-> TRUE]],
    [url |-> Url, headers |-> IfMatch(<<"tag-2">>)] }

UpdateOutcomes ==
  { [response |-> Response(412, EmptyObj), error |-> NoError],
    [response |-> Response(200, Obj1("etag", <<"tag-1">>)), error |-> NoError],
    [response |-> Response(200, Obj1("etag", <<"tag-2">>)), error |-> NoError],
    [response |-> Response(200, EmptyObj), error |-> NoError],
    [response |-> Response(404, EmptyObj), error |-> NoError],
    [response |-> Response(500, EmptyObj), error |-> NoError] }

InitUpdate ==
  /\ pc = "begin"
  /\ options \in UpdateRequests
  /\ global = EmptyObj
  /\ raw = NoOutcome
  /\ result = NoResult
  /\ now = 1
  /\ uuids = 0
  /\ sends = 0
  /\ history = <<>>
  /\ waits = <<>>
  /\ adds = 0
  /\ booked = EmptyObj
  /\ chain = <<>>
  /\ decision = NoDecision
  /\ request = options
  /\ jar = <<>>
  /\ handleCookies = FALSE
  /\ cleared = FALSE
  /\ requests = 1
  /\ parked = NoResult

\* The server answers.
RespondUpdate ==
  /\ pc = "inflight"
  /\ \E outcome \in UpdateOutcomes :
       /\ raw' = outcome
       /\ history' = Append(history, outcome)
  /\ pc' = "responded"
  /\ UNCHANGED <<options, global, result, now, uuids, sends, waits, adds, booked, chain, decision, request, jar, handleCookies, cleared, requests, parked>>

NextUpdate == BeginRequest \/ RespondUpdate \/ EndRequest \/ Retry \/ Wake \/ Final

SpecUpdate == InitUpdate /\ [][NextUpdate]_vars

(***************************************************************************)
(* The attempt loop of requests whose strategies return request options    *)
(* for the next attempt.                                                   *)
(***************************************************************************)
ReturnsUrl == [shouldRetry |-> {404}, getRequestOptions |-> "url"]

ReturnsHeaders == [shouldRetry |-> {404}, getRequestOptions |-> "headers"]

ReturnsHello == [shouldRetry |-> {404}, getRequestOptions |-> "hello"]

ReturnsNothing == [shouldRetry |-> {404}]

OverrideRequests ==
  { WithRequestId([url |-> Url, method |-> "PUT",
                   cloudClient |-> [retry |-> [count |-> 3, delay |-> 10, strategies |-> <<d>>]]]) :
      d \in {ReturnsUrl, ReturnsHeaders, ReturnsHello, ReturnsNothing, SameCloudClient, EmptyCloudClient} }

InitOverride ==
  /\ pc = "begin"
  /\ options \in OverrideRequests
  /\ global = EmptyObj
  /\ raw = NoOutcome
  /\ result = NoResult
  /\ now = 1
  /\ uuids = 0
  /\ sends = 0
  /\ history = <<>>
  /\ waits = <<>>
  /\ adds = 0
  /\ booked = EmptyObj
  /\ chain = <<>>
  /\ decision = NoDecision
  /\ request = options
  /\ jar = <<>>
  /\ handleCookies = FALSE
  /\ cleared = FALSE
  /\ requests = 1
  /\ parked = NoResult

NextOverride == BeginRequest \/ Respond \/ EndRequest \/ Retry \/ Wake \/ Final

SpecOverride == InitOverride /\ [][NextOverride]_vars

(***************************************************************************)
(* setStartTime and setEndTime called on one HttpOptions in any order,     *)
(* with any timestamps; history is the list of the calls made.             *)
(***************************************************************************)
MaxCalls == 3

MaxTime == 2

InitTimes ==
  /\ pc = "call"
  /\ options \in {[url |-> Url], Request([retry |-> [delay |-> 10]])}
  /\ global = EmptyObj
  /\ raw = NoOutcome
  /\ result = NoResult
  /\ now = 1
  /\ uuids = 0
  /\ sends = 0
  /\ history = <<>>
  /\ waits = <<>>
  /\ adds = 0
  /\ booked = EmptyObj
  /\ chain = <<>>
  /\ decision = NoDecision
  /\ request = options
  /\ jar = <<>>
  /\ handleCookies = FALSE
  /\ cleared = FALSE
  /\ requests = 1
  /\ parked = NoResult

CallSetStartTime ==
  /\ Len(history) < MaxCalls
  /\ \E startTime \in 0..MaxTime :
       /\ options' = setStartTime(options, startTime)
       /\ history' = Append(history, [call |-> "setStartTime", time |-> startTime])
  /\ UNCHANGED <<pc, global, raw, result, now, uuids, sends, waits, adds, booked, chain, decision, request, jar, handleCookies, cleared, requests, parked>>

CallSetEndTime ==
  /\ Len(history) < MaxCalls
  /\ \E endTime \in 0..MaxTime :
       /\ options' = setEndTime(options, endTime)
       /\ history' = Append(history, [call |-> "setEndTime", time |-> endTime])
  /\ UNCHANGED <<pc, global, raw, result, now, uuids, sends, waits, adds, booked, chain, decision, request, jar, handleCookies, cleared, requests, parked>>

NextTimes == CallSetStartTime \/ CallSetEndTime

SpecTimes == InitTimes /\ [][NextTimes]_vars

(***************************************************************************)
(* Two logical requests going through the one client at the same time.     *)
(* The interceptor's functions are async: while one request waits for the  *)
(* transport or for its sleep, or is over, the other one runs.  The        *)
(* variables hold the request that runs, parked the one that waits; the    *)
(* client's own state (global, jar, the clock, the uuid source) is the     *)
(* same for both.                                                          *)
(***************************************************************************)
PairRequests ==
  { Request([retry |-> [count |-> 2, delay |-> 10]]),
    Request([retry |-> [count |-> 2, delay |-> 20, strategies |-> <<ReturnsNothing>>]]) }

PairOutcomes ==
  { [response |-> Response(200, EmptyObj), error |-> NoError],
    [response |-> Response(404, EmptyObj), error |-> NoError],
    [response |-> Response(500, EmptyObj), error |-> NoError] }

\* The state of one logical request, as the variables hold it.
running ==
  [pc |-> pc, options |-> options, raw |-> raw, result |-> result, sends |-> sends,
   history |-> history, waits |-> waits, adds |-> adds, booked |-> booked,
   chain |-> chain, decision |-> decision, request |-> request]

notStarted(o) ==
  [pc |-> "begin", options |-> o, raw |-> NoOutcome, result |-> NoResult, sends |-> 0,
   history |-> <<>>, waits |-> <<>>, adds |-> 0, booked |-> EmptyObj,
   chain |-> <<>>, decision |-> NoDecision, request |-> o]

InitPair ==
  /\ pc = "begin"
  /\ options \in PairRequests
  /\ global \in GlobalOptions
  /\ raw = NoOutcome
  /\ result = NoResult
  /\ now = 1
  /\ uuids = 0
  /\ sends = 0
  /\ history = <<>>
  /\ waits = <<>>
  /\ adds = 0
  /\ booked = EmptyObj
  /\ chain = <<>>
  /\ decision = NoDecision
  /\ request = options
  /\ jar = <<>>
  /\ handleCookies = FALSE
  /\ cleared = FALSE
  /\ requests = 2
  /\ parked \in {notStarted(o) : o \in PairRequests}

\* The transport answers one of the two requests.
RespondPair ==
  /\ pc = "inflight"
  /\ \E outcome \in PairOutcomes :
       /\ raw' = outcome
       /\ history' = Append(history, outcome)
  /\ pc' = "responded"
  /\ UNCHANGED <<options, global, result, now, uuids, sends, waits, adds, booked, chain, decision, request, jar, handleCookies, cleared, requests, parked>>

\* Switch as a bug would have it: the retry bookkeeping belongs to the
\* client, and the request that resumes goes on with the cloudClient of the
\* one that ran.
SwitchSharesBookkeeping ==
  /\ pc \in {"inflight", "sleeping", "done"}
  /\ parked' = running
  /\ pc' = parked.pc
  /\ options' = Spread(parked.options, [cloudClient |-> getClientOptions(options)])
  /\ raw' = parked.raw
  /\ result' = parked.result
  /\ sends' = parked.sends
  /\ history' = parked.history
  /\ waits' = parked.waits
  /\ adds' = parked.adds
  /\ booked' = parked.booked
  /\ chain' = parked.chain
  /\ decision' = parked.decision
  /\ request' = parked.request
  /\ UNCHANGED <<global, now, uuids, jar, handleCookies, cleared, requests>>

\* The request that runs reaches an await (the transport, the sleep, or its
\* end) and the other request goes on from where it waited,
\* with the options object it was created with.
Switch ==
  /\ pc \in {"inflight", "sleeping", "done"}
  /\ parked' = running
  /\ pc' = parked.pc
  /\ options' = parked.options
  /\ raw' = parked.raw
  /\ result' = parked.result
  /\ sends' = parked.sends
  /\ history' = parked.history
  /\ waits' = parked.waits
  /\ adds' = parked.adds
  /\ booked' = parked.booked
  /\ chain' = parked.chain
  /\ decision' = parked.decision
  /\ request' = parked.request
  /\ UNCHANGED <<global, now, uuids, jar, handleCookies, cleared, requests>>

NextPair == BeginRequest \/ RespondPair \/ EndRequest \/ Retry \/ Wake \/ Final \/ Switch

SpecPair == InitPair /\ [][NextPair]_vars

(***************************************************************************)
(* Direct calls of retryWithStrategies and getRetryStrategies, as the unit *)
(* tests make them: the options, the response and the attempt number are   *)
(* drawn freely.                                                           *)
(***************************************************************************)
CallDescriptors == {Unbounded, CappedAtOne, BelowSentinel, CappedAtZero, TenFold}

SeqsUpTo(S, n) == UNION {[1..k -> S] : k \in 0..n}

CallRetrySettings == {EmptyObj, [count |-> 2, delay |-> 10, delayMultiple |-> 3]}

Flags(c, u, d) ==
  Spread(Spread(IF c THEN [eventuallyConsistentCreate |-> TRUE] ELSE EmptyObj,
                IF u THEN [eventuallyConsistentUpdate |-> TRUE] ELSE EmptyObj),
         IF d THEN [eventuallyConsistentDelete |-> TRUE] ELSE EmptyObj)

CallOptions ==
  { Request(Spread(Flags(c, u, d),
                   [retry |-> IF strategies = <<>> THEN settings
                              ELSE Spread(settings, [strategies |-> strategies])])) :
      c \in BOOLEAN, u \in BOOLEAN, d \in BOOLEAN,
      settings \in CallRetrySettings,
      strategies \in SeqsUpTo(CallDescriptors, MaxCustom) }

CallResponses ==
  { EmptyObj,
    [status |-> 200],
    Response(200, EmptyObj),
    Response(404, EmptyObj),
    Response(500, EmptyObj),
    Response(503, Obj1("Retry-After", <<"5">>)),
    Response(200, Obj1("retry-after", <<"1", "2">>)),
    Response(503, Obj1("Retry-After", <<"0">>)),
    Response(503, Obj1("RETRY-AFTER", <<"3">>)),
    Response(503, Obj1("Retry-after", <<"3">>)),
    Response(404, Obj1("retry-after", <<"W", "e", "d">>)) }

InitCalls ==
  /\ pc = "call"
  /\ options \in CallOptions
  /\ global = EmptyObj
  /\ raw = NoOutcome
  /\ result = NoResult
  /\ now = 1
  /\ uuids = 0
  /\ sends = 0
  /\ history = <<>>
  /\ waits = <<>>
  /\ adds = 0
  /\ booked = EmptyObj
  /\ chain = <<>>
  /\ decision = NoDecision
  /\ request = options
  /\ jar = <<>>
  /\ handleCookies = FALSE
  /\ cleared = FALSE
  /\ requests = 1
  /\ parked = NoResult

CallRetryWithStrategies ==
  /\ pc = "call"
  /\ decision = NoDecision
  /\ \E rawResponse \in CallResponses, attempts \in 1..MaxAttempts :
       /\ raw' = [response |-> rawResponse, error |-> NoError]
       /\ decision' = retryWithStrategies(options, HttpResponse(rawResponse, NoError), attempts)
  /\ UNCHANGED <<pc, options, global, result, now, uuids, sends, history, waits, adds, booked, chain, request, jar, handleCookies, cleared, requests, parked>>

CallGetRetryStrategies ==
  /\ pc = "call"
  /\ chain = <<>>
  /\ chain' = getRetryStrategies(options)
  /\ UNCHANGED <<pc, options, global, raw, result, now, uuids, sends, history, waits, adds, booked, decision, request, jar, handleCookies, cleared, requests, parked>>

NextCalls == CallRetryWithStrategies \/ CallGetRetryStrategies

SpecCalls == InitCalls /\ [][NextCalls]_vars

(***************************************************************************)
(* Direct calls of addRetry on options constructed with any retry          *)
(* bookkeeping a caller may pass in cloudClient.                           *)
(***************************************************************************)
MaxAdds == 2

ConstructedRetries == {EmptyObj, [retries |-> 0], [retries |-> 1], [retries |-> 2]}

ConstructedRetryWait == {EmptyObj, [retryWait |-> 200]}

ConstructedRetryResponses ==
  {EmptyObj, [retryResponses |-> <<>>], [retryResponses |-> <<[status |-> 200]>>]}

ConstructedOptions ==
  { Request(Spread(Spread(r, w), rr)) :
      r \in ConstructedRetries, w \in ConstructedRetryWait, rr \in ConstructedRetryResponses }
  \cup {EmptyObj, [url |-> Url]}

InitAddRetry ==
  /\ pc = "call"
  /\ options \in ConstructedOptions
  /\ global = EmptyObj
  /\ raw = NoOutcome
  /\ result = NoResult
  /\ now = 1
  /\ uuids = 0
  /\ sends = 0
  /\ history = <<>>
  /\ waits = <<>>
  /\ adds = 0
  /\ booked = EmptyObj
  /\ chain = <<>>
  /\ decision = NoDecision
  /\ request = options
  /\ jar = <<>>
  /\ handleCookies = FALSE
  /\ cleared = FALSE
  /\ requests = 1
  /\ parked = NoResult

CallAddRetry ==
  /\ pc = "call"
  /\ adds < MaxAdds
  /\ \E outcome \in Outcomes, waited \in {0, 150} :
       /\ raw' = outcome
       /\ options' = addRetry(options, envelopeOf(outcome), waited)
       /\ booked' = addRetry(options, envelopeOf(outcome), waited)
       /\ waits' = Append(waits, waited)
  /\ adds' = adds + 1
  /\ UNCHANGED <<pc, global, result, now, uuids, sends, history, chain, decision, request, jar, handleCookies, cleared, requests, parked>>

NextAddRetry == CallAddRetry

SpecAddRetry == InitAddRetry /\ [][NextAddRetry]_vars

(***************************************************************************)
(* A client whose backend may handle cookies: logical requests one after   *)
(* another through the same client, each with its attempt loop, and the    *)
(* client's setCookies and clearCookies called in between or meanwhile.    *)
(***************************************************************************)
MaxRequests == 2

CookieHost == <<"a", "example", "com">>

SiblingHost == <<"b", "example", "com">>

OtherHost == <<"other", "org">>

CookieUrl(protocol, hostname, pathname) ==
  [protocol |-> protocol, hostname |-> hostname, pathname |-> pathname]

HostUrl == CookieUrl("http", CookieHost, <<>>)

\* A URL two segments deep: its default cookie path is its directory.
DeepUrl == CookieUrl("http", CookieHost, <<"cookiepath", "deep">>)

CookieUrls ==
  { HostUrl,
    DeepUrl,
    CookieUrl("https", CookieHost, <<>>),
    CookieUrl("http", CookieHost, <<"cookiepath">>),
    CookieUrl("https", CookieHost, <<"cookiepath">>),
    CookieUrl("http", SiblingHost, <<>>),
    CookieUrl("http", OtherHost, <<>>),
    CookieUrl("https", OtherHost, <<"cookiepath">>) }

RequestUrls ==
  { HostUrl,
    CookieUrl("https", CookieHost, <<"cookiepath">>) }

OwnCookies == << <<"sid", "own">> >>

\* A request that is resubmitted once at most.
CookieRequest(url) == [url |-> url, cloudClient |-> [retry |-> [count |-> 2]]]

\* The requests a caller hands to the client: without cookies, or with a
\* cookie header of its own in one spelling or another.
CookieRequests ==
  { CookieRequest(u) : u \in RequestUrls \cup {DeepUrl} }
  \cup { Spread(CookieRequest(HostUrl), [headers |-> Obj1(name, OwnCookies)]) :
           name \in {"cookie", "Cookie"} }

SetCookie(key, value, attributes) == Spread([key |-> key, value |-> value], attributes)

AllAttributes ==
  SetCookie("mycookie", "value1",
            Spread([Domain |-> CookieHost, Path |-> <<"cookiepath">>, Secure |-> TRUE, Expires |-> 100000],
                   Obj1("Max-Age", 60)))

\* The Set-Cookie lists a response can carry.
SetCookieLists ==
  { << SetCookie("sid", "new", EmptyObj) >>,
    << SetCookie("sid", "gone", Obj1("Max-Age", 0)), SetCookie("tok", "none", Obj1("Max-Age", 0 - 1)) >>,
    << SetCookie("sid", "past", [Expires |-> 0]), SetCookie("tok", "t", [Secure |-> TRUE]) >>,
    << AllAttributes, SetCookie("wide", "w", [Domain |-> <<"example", "com">>]) >> }

WithSetCookies(response, setCookie) ==
  Spread(response, [headers |-> Obj1("set-cookie", setCookie)])

\* What one send to a URL can end in; a server sets cookies for its own
\* domain only.
CookieOutcomes(url) ==
  { [response |-> Response(200, EmptyObj), error |-> NoError],
    [response |-> NoResponse, error |-> AnError],
    [response |-> WithSetCookies(Response(500, EmptyObj), << SetCookie("sid", "new", EmptyObj) >>),
     error |-> NoError],
    [response |-> WithSetCookies(Response(500, EmptyObj), << SetCookie("sid", "new", EmptyObj) >>),
     error |-> AnError],
    [response |-> WithSetCookies(Response(500, EmptyObj), << SetCookie("sid", "gone", Obj1("Max-Age", 0)) >>),
     error |-> NoError] }
  \cup { [response |-> WithSetCookies(Response(200, EmptyObj), l), error |-> NoError] :
           l \in {m \in SetCookieLists :
                    \A i \in 1..Len(m) :
                      Has(m[i], "Domain") => domainMatch(url.hostname, m[i]["Domain"])} }

InitCookies ==
  /\ pc = "idle"
  /\ options = EmptyObj
  /\ global = EmptyObj
  /\ raw = NoOutcome
  /\ result = NoResult
  /\ now = 1
  /\ uuids = 0
  /\ sends = 0
  /\ history = <<>>
  /\ waits = <<>>
  /\ adds = 0
  /\ booked = EmptyObj
  /\ chain = <<>>
  /\ decision = NoDecision
  /\ request = EmptyObj
  /\ jar = <<>>
  /\ handleCookies \in BOOLEAN
  /\ cleared = FALSE
  /\ requests = 0
  /\ parked = NoResult

\* The caller hands a new request to the client.
NewRequest ==
  /\ pc \in {"idle", "done"}
  /\ requests < MaxRequests
  /\ \E o \in CookieRequests :
       /\ options' = o
       /\ request' = o
  /\ requests' = requests + 1
  /\ pc' = "begin"
  /\ raw' = NoOutcome
  /\ result' = NoResult
  /\ sends' = 0
  /\ history' = <<>>
  /\ waits' = <<>>
  /\ adds' = 0
  /\ booked' = EmptyObj
  /\ chain' = <<>>
  /\ decision' = NoDecision
  /\ UNCHANGED <<global, now, uuids, jar, handleCookies, cleared, parked>>

\* The transport answers or throws.
CookieRespond ==
  /\ pc = "inflight"
  /\ \E outcome \in CookieOutcomes(getUrl(options)) :
       /\ raw' = outcome
       /\ history' = Append(history, outcome)
  /\ pc' = "responded"
  /\ UNCHANGED <<options, global, result, now, uuids, sends, waits, adds, booked, chain, decision, request, jar, handleCookies, cleared, requests, parked>>

\* HttpClient.setCookies called by the client's user before any request.
SetCookiesCall ==
  /\ pc = "idle"
  /\ jar = <<>>
  /\ ~cleared
  /\ jar' = setCookies(jar, HostUrl, << SetCookie("sid", "old", EmptyObj) >>)
  /\ UNCHANGED <<pc, options, global, raw, result, now, uuids, sends, history, waits, adds, booked, chain, decision, request, handleCookies, cleared, requests, parked>>

\* HttpClient.clearCookies, whenever the client's user calls it.
ClearCookies ==
  /\ pc \in {"idle", "inflight", "sleeping", "done"}
  /\ ~cleared
  /\ jar # <<>>
  /\ jar' = <<>>
  /\ cleared' = TRUE
  /\ UNCHANGED <<pc, options, global, raw, result, now, uuids, sends, history, waits, adds, booked, chain, decision, request, handleCookies, requests, parked>>

NextCookies ==
  \/ NewRequest
  \/ BeginRequest
  \/ CookieRespond
  \/ EndRequest
  \/ Retry
  \/ Wake
  \/ Final
  \/ SetCookiesCall
  \/ ClearCookies

SpecCookies == InitCookies /\ [][NextCookies]_vars

(***************************************************************************)
(* Two responses for the same URL whose Set-Cookie values are stored at    *)
(* the same time.  HttpClient.setCookies awaits the jar once per value, so *)
(* the two loops interleave value by value, and a lookup can fall between  *)
(* any two of them.  raw is the response whose values are being stored,    *)
(* sends the position of the loop over them, parked the same for the       *)
(* other response, and history the log of the calls made on the jar.       *)
(***************************************************************************)
MaxLookups == 1

JarSetCookieLists ==
  { << SetCookie("sid", "one", EmptyObj) >>,
    << SetCookie("sid", "two", EmptyObj), SetCookie("tok", "t", EmptyObj) >>,
    << SetCookie("sid", "root", [Path |-> <<>>]) >>,
    << SetCookie("sid", "gone", Obj1("Max-Age", 0)) >> }

JarOutcomes ==
  { [response |-> WithSetCookies(Response(200, EmptyObj), l), error |-> NoError] :
      l \in JarSetCookieLists }

OldJar == setCookies(<<>>, DeepUrl, << SetCookie("sid", "old", EmptyObj) >>)

storing(outcome) ==
  [notStarted([url |-> DeepUrl]) EXCEPT !.pc = "storing", !.raw = outcome]

InitJar ==
  /\ pc = "storing"
  /\ options = [url |-> DeepUrl]
  /\ global = EmptyObj
  /\ raw \in JarOutcomes
  /\ result = NoResult
  /\ now = 1
  /\ uuids = 0
  /\ sends = 0
  /\ history = <<>>
  /\ waits = <<>>
  /\ adds = 0
  /\ booked = EmptyObj
  /\ chain = <<>>
  /\ decision = NoDecision
  /\ request = options
  /\ jar \in {<<>>, OldJar}
  /\ handleCookies = TRUE
  /\ cleared = FALSE
  /\ requests = 2
  /\ parked \in {storing(o) : o \in JarOutcomes}

\* One turn of the loop of HttpClient.setCookies: Cookie.parse of the next
\* value and the jar's setCookie for the response's URL.
StoreCookie ==
  /\ pc = "storing"
  /\ LET cookies == getSetCookies(raw.response)
         cookie == Cookie_parse(cookies[sends + 1])
     IN /\ jar' = CookieJar_setCookie(jar, cookie, getUrl(options))
        /\ history' = Append(history, [call |-> "setCookie",
                                       cookie |-> storedCookie(cookie, getUrl(options))])
        /\ pc' = IF sends + 1 = Len(cookies) THEN "done" ELSE "storing"
  /\ sends' = sends + 1
  /\ UNCHANGED <<options, global, raw, result, now, uuids, waits, adds, booked, chain, decision, request, handleCookies, cleared, requests, parked>>

isLookup(entry) == entry.call = "getCookies"

\* _getClientCookies for the URL, made by another request that begins.
LookupCookies ==
  /\ Len(SelectSeq(history, isLookup)) < MaxLookups
  /\ history' = Append(history, [call |-> "getCookies",
                                 seen |-> CookieJar_getCookies(jar, DeepUrl, now)])
  /\ jar' = afterGetCookies(jar, DeepUrl, now)
  /\ UNCHANGED <<pc, options, global, raw, result, now, uuids, sends, waits, adds, booked, chain, decision, request, handleCookies, cleared, requests, parked>>

\* The loop that runs reaches its await, or its end, and the loop of the
\* other response goes on; the log of the jar's calls is one for both.
SwitchStore ==
  /\ pc \in {"storing", "done"}
  /\ parked' = running
  /\ pc' = parked.pc
  /\ options' = parked.options
  /\ raw' = parked.raw
  /\ sends' = parked.sends
  /\ UNCHANGED <<global, result, now, uuids, history, waits, adds, booked, chain, decision, request, jar, handleCookies, cleared, requests>>

NextJar == StoreCookie \/ LookupCookies \/ SwitchStore

SpecJar == InitJar /\ [][NextJar]_vars

(***************************************************************************)
(* parseMultipleFetchSetCookieHeaders, called on its own.  A string is the *)
(* sequence of its characters; the characters that matter to the function  *)
(* are the comma, the space, the equals sign and any other character.      *)
(***************************************************************************)
MaxHeaderLen == 7

Chars == {"a", "=", " ", ","}

HeaderValues == UNION {[1..n -> Chars] : n \in 0..MaxHeaderLen}

\* String.prototype.split(", "): the pieces between the occurrences of ", ".
RECURSIVE splitFrom(_, _, _)
splitFrom(s, i, piece) ==
  IF i > Len(s) THEN <<piece>>
  ELSE IF i < Len(s) /\ s[i] = "," /\ s[i + 1] = " "
       THEN <<piece>> \o splitFrom(s, i + 2, <<>>)
       ELSE splitFrom(s, i + 1, Append(piece, s[i]))

\* /^[^ ]+=/: one or more characters other than a space, then "=".
beginsCookie(splitValue) ==
  \E p \in 2..Len(splitValue) :
    /\ splitValue[p] = "="
    /\ \A j \in 1..(p - 1) : splitValue[j] # " "

\* The forEach of parseMultipleFetchSetCookieHeaders as a bug would have
\* it: an empty piece is appended like any other continuation.
RECURSIVE parseKeepingEmpty(_, _, _, _)
parseKeepingEmpty(splitValues, i, headerValues, currValue) ==
  IF i > Len(splitValues)
  THEN IF currValue # <<>> THEN Append(headerValues, currValue) ELSE headerValues
  ELSE IF ~beginsCookie(splitValues[i])
       THEN parseKeepingEmpty(splitValues, i + 1, headerValues,
                              currValue \o <<",", " ">> \o splitValues[i])
       ELSE parseKeepingEmpty(splitValues, i + 1,
                              IF currValue # <<>> THEN Append(headerValues, currValue)
                              ELSE headerValues,
                              splitValues[i])

\* The forEach over the pieces and the push of the last value.
RECURSIVE parseFrom(_, _, _, _)
parseFrom(splitValues, i, headerValues, currValue) ==
  IF i > Len(splitValues)
  THEN IF currValue # <<>> THEN Append(headerValues, currValue) ELSE headerValues
  ELSE IF splitValues[i] = <<>>
       THEN parseFrom(splitValues, i + 1, headerValues, currValue)
       ELSE IF ~beginsCookie(splitValues[i])
            THEN parseFrom(splitValues, i + 1, headerValues,
                           currValue \o <<",", " ">> \o splitValues[i])
            ELSE parseFrom(splitValues, i + 1,
                           IF currValue # <<>> THEN Append(headerValues, currValue)
                           ELSE headerValues,
                           splitValues[i])

parseMultipleFetchSetCookieHeaders(headerValue) ==
  parseFrom(splitFrom(headerValue, 1, <<>>), 1, <<>>, <<>>)

InitParse ==
  /\ pc = "call"
  /\ options = EmptyObj
  /\ global = EmptyObj
  /\ raw \in HeaderValues
  /\ result = NoResult
  /\ now = 1
  /\ uuids = 0
  /\ sends = 0
  /\ history = <<>>
  /\ waits = <<>>
  /\ adds = 0
  /\ booked = EmptyObj
  /\ chain = <<>>
  /\ decision = NoDecision
  /\ request = EmptyObj
  /\ jar = <<>>
  /\ handleCookies = FALSE
  /\ cleared = FALSE
  /\ requests = 0
  /\ parked = NoResult

\* parseMultipleFetchSetCookieHeaders is called with the header value.
CallParse ==
  /\ pc = "call"
  /\ result' = parseMultipleFetchSetCookieHeaders(raw)
  /\ pc' = "done"
  /\ UNCHANGED <<options, global, raw, now, uuids, sends, history, waits, adds, booked, chain, decision, request, jar, handleCookies, cleared, requests, parked>>

NextParse == CallParse

SpecParse == InitParse /\ [][NextParse]_vars

(***************************************************************************)
(* The summaries called directly: HttpResponse.toClientResponse,           *)
(* HttpResponse.toJSON and HttpOptions.toJSON on one envelope and one set  *)
(* of request options.  raw is what the transport produced, request holds  *)
(* the arguments of the call: the extra information handed to              *)
(* toClientResponse and the request time set on the envelope.              *)
(***************************************************************************)
SummaryHeaders ==
  { Obj1("content-type", <<"json">>),
    Spread(Obj1("content-type", <<"json">>), Obj1("authorization", <<"Bearer s3cret">>)),
    Spread(Obj1("content-type", <<"json">>), Obj1("authorization", <<"Bearer 0ther">>)),
    Spread(Obj1("Authorization", <<"Bearer s3cret">>), Obj1("COOKIE", <<"sid=s3cret">>)),
    Spread(Obj1("authoriZation", <<"Bearer s3cret">>), Obj1("cOOkie", <<"sid=s3cret">>)) }

SummaryResponses ==
  { [status |-> 200, statusText |-> "OK", headers |-> h, body |-> "payload"] : h \in SummaryHeaders }
    \cup { [status |-> 500, body |-> "payload"], NoResponse }

SummaryErrors ==
  { NoError,
    AnError,
    [name |-> "Error", message |-> "boom", stack |-> "trace", code |-> "ECONNRESET"],
    [message |-> "boom", stack |-> "trace"],
    [hello |-> "world"] }

SummaryOutcomes == { [response |-> r, error |-> e] : r \in SummaryResponses, e \in SummaryErrors }

SummaryOptions ==
  { [url |-> Url],
    [url |-> Url, method |-> "POST", data |-> "payload"],
    [url |-> Url, headers |-> Obj1("accept", <<"json">>)] }
    \cup { [url |-> Url, headers |-> h] : h \in SummaryHeaders }

SummaryCalls ==
  { [clientInfo |-> i, requestTime |-> t] :
      i \in { EmptyObj, [options |-> [url |-> Url]], [status |-> 999, extra |-> "more"] },
      t \in { EmptyObj, [requestTime |-> 5] } }

InitSummaries ==
  /\ pc = "call"
  /\ options \in SummaryOptions
  /\ global = EmptyObj
  /\ raw \in SummaryOutcomes
  /\ result = NoResult
  /\ now = 1
  /\ uuids = 0
  /\ sends = 0
  /\ history = <<>>
  /\ waits = <<>>
  /\ adds = 0
  /\ booked = EmptyObj
  /\ chain = <<>>
  /\ decision = NoDecision
  /\ request \in SummaryCalls
  /\ jar = <<>>
  /\ handleCookies = FALSE
  /\ cleared = FALSE
  /\ requests = 0
  /\ parked = NoResult

\* new HttpResponse(rawResponse, error), setRequestTime when a time is given,
\* then toClientResponse(clientInfo).
CallToClientResponse ==
  /\ pc = "call"
  /\ result' = toClientResponse(envelopeOf(raw), request.requestTime, request.clientInfo)
  /\ pc' = "toClientResponse"
  /\ UNCHANGED <<options, global, raw, now, uuids, sends, history, waits, adds, booked, chain, decision, request, jar, handleCookies, cleared, requests, parked>>

\* new HttpResponse(rawResponse, error), setRequestTime when a time is given,
\* then toJSON().
CallResponseToJSON ==
  /\ pc = "call"
  /\ result' = HttpResponse_toJSON(envelopeOf(raw), request.requestTime)
  /\ pc' = "responseToJSON"
  /\ UNCHANGED <<options, global, raw, now, uuids, sends, history, waits, adds, booked, chain, decision, request, jar, handleCookies, cleared, requests, parked>>

\* new HttpOptions(options).toJSON(); the request id is drawn when the
\* options carry none.
CallOptionsToJSON ==
  /\ pc = "call"
  /\ result' = HttpOptions_toJSON(options, uuids + 1)
  /\ options' = HttpOptions_afterToJSON(options)
  /\ uuids' = uuidsAfter(options, uuids)
  /\ pc' = "optionsToJSON"
  /\ UNCHANGED <<global, raw, now, sends, history, waits, adds, booked, chain, decision, request, jar, handleCookies, cleared, requests, parked>>

NextSummaries ==
  \/ CallToClientResponse
  \/ CallResponseToJSON
  \/ CallOptionsToJSON

SpecSummaries == InitSummaries /\ [][NextSummaries]_vars

(***************************************************************************)
(* An HttpOptions instance whose toJSON and getRetryStrategies are called  *)
(* in any order, as the unit tests of the options do.  request keeps the   *)
(* options the instance was created with, chain what getRetryStrategies    *)
(* returned last.                                                          *)
(***************************************************************************)
SnapshotRetrySettings ==
  { [delay |-> 10],
    [strategies |-> <<>>],
    [strategies |-> <<CappedAtOne>>],
    [count |-> 2, strategies |-> <<Unbounded, TenFold>>] }

SnapshotOptions ==
  { [url |-> Url], Request(EmptyObj), WithRequestId(Request([retries |-> 1, retryWait |-> 10])) }
  \cup { Request(Spread(f, [retry |-> r])) :
           f \in {EmptyObj, [eventuallyConsistentCreate |-> TRUE]},
           r \in SnapshotRetrySettings }
  \cup { WithRequestId(Request([retry |-> r])) : r \in SnapshotRetrySettings }

InitSnapshot ==
  /\ pc = "call"
  /\ options \in SnapshotOptions
  /\ global = EmptyObj
  /\ raw = NoOutcome
  /\ result = NoResult
  /\ now = 1
  /\ uuids = 0
  /\ sends = 0
  /\ history = <<>>
  /\ waits = <<>>
  /\ adds = 0
  /\ booked = EmptyObj
  /\ chain = <<>>
  /\ decision = NoDecision
  /\ request = options
  /\ jar = <<>>
  /\ handleCookies = FALSE
  /\ cleared = FALSE
  /\ requests = 0
  /\ parked = NoResult

\* getRetryStrategies() on the instance, before or after its toJSON().
CallGetRetryStrategiesOf ==
  /\ Len(history) < MaxCalls
  /\ chain' = getRetryStrategies(options)
  /\ history' = Append(history, [call |-> "getRetryStrategies", after |-> pc])
  /\ UNCHANGED <<pc, options, global, raw, result, now, uuids, sends, waits, adds, booked, decision, request, jar, handleCookies, cleared, requests, parked>>

NextSnapshot == CallOptionsToJSON \/ CallGetRetryStrategiesOf

SpecSnapshot == InitSnapshot /\ [][NextSnapshot]_vars

(***************************************************************************)
(* HttpOptions.mergeClientOptions called directly, once and once more, on  *)
(* request options and client-wide options that share keys.                *)
(***************************************************************************)
MergeRequests ==
  { [url |-> Url],
    Request(EmptyObj),
    Request([timeout |-> 1000]),
    Request([timeout |-> 1000, eventuallyConsistentCreate |-> TRUE,
             retry |-> [count |-> 3, delayMultiple |-> 4]]),
    Request([retry |-> [strategies |-> <<CappedAtOne>>]]),
    Request([retry |-> [count |-> 4, strategies |-> <<CappedAtOne>>]]),
    Request([timeout |-> 1000, retry |-> [delay |-> 10, strategies |-> <<CappedAtOne, CappedAtZero>>]]),
    Request([retry |-> [strategies |-> <<>>]]) }

MergeGlobals ==
  { EmptyObj,
    [timeout |-> 2000],
    [timeout |-> 2000, eventuallyConsistentDelete |-> TRUE, retry |-> [count |-> 4, delay |-> 200]],
    [retry |-> [strategies |-> <<Unbounded>>]],
    [retry |-> [count |-> 4, strategies |-> <<Unbounded>>]],
    [timeout |-> 2000, retry |-> [count |-> 2, delay |-> 200, delayMultiple |-> 3,
                                  strategies |-> <<Unbounded, CappedAtOne>>]],
    [retry |-> EmptyObj],
    [retry |-> [strategies |-> <<>>]] }

InitMerge ==
  /\ pc = "call"
  /\ options \in MergeRequests
  /\ global \in MergeGlobals
  /\ raw = NoOutcome
  /\ result = NoResult
  /\ now = 1
  /\ uuids = 0
  /\ sends = 0
  /\ history = <<>>
  /\ waits = <<>>
  /\ adds = 0
  /\ booked = EmptyObj
  /\ chain = <<>>
  /\ decision = NoDecision
  /\ request = options
  /\ jar = <<>>
  /\ handleCookies = FALSE
  /\ cleared = FALSE
  /\ requests = 1
  /\ parked = NoResult

\* mergeClientOptions(global) on the options, a first and a second time.
CallMergeClientOptions ==
  /\ pc \in {"call", "merged"}
  /\ options' = mergeClientOptions(options, global)
  /\ pc' = IF pc = "call" THEN "merged" ELSE "mergedAgain"
  /\ UNCHANGED <<global, raw, result, now, uuids, sends, history, waits, adds, booked, chain, decision, request, jar, handleCookies, cleared, requests, parked>>

NextMerge == CallMergeClientOptions

SpecMerge == InitMerge /\ [][NextMerge]_vars

(***************************************************************************)
(* Properties of retryWithStrategies and getRetryStrategies, checked under *)
(* SpecCalls.                                                              *)
(***************************************************************************)
Called == decision # NoDecision

\* The strategy that answered true in the last call.
Winner == getRetryStrategies(options)[decision.winner]

OverridesNothing(strategy) ==
  ~Has(strategy.options, "getDelay") /\ ~Has(strategy.options, "getDelayMultiple")

\* C1: whenever retryWithStrategies decides to retry, the delay it returns is
\* d * m^(a-1), a >= 1 the attempt number it was called with, d and m what
\* the winning strategy's getDelay and getDelayMultiple return, or the delay
\* and delayMultiple the strategy was handed when it has none.
C1_BackoffDelay ==
  (Called /\ decision.retry) =>
    LET ro == decision.retryOptions
        d == IF Has(Winner.options, "getDelay") THEN Winner.options["getDelay"] ELSE ro.delay
        m == IF Has(Winner.options, "getDelayMultiple")
             THEN Winner.options["getDelayMultiple"] ELSE ro.delayMultiple
    IN /\ ro.attempts >= 1
       /\ decision.delay = d * (m ^ (ro.attempts - 1))

\* The unit test's case: a custom multiple of 10 on the second attempt.
C1_Witness ==
  /\ Called
  /\ decision.retry
  /\ decision.retryOptions.attempts = 2
  /\ Has(Winner.options, "getDelayMultiple")
  /\ decision.delay = 10000

C2_Capped(strategy, ro) ==
  LET maxRetries == getMaxRetryCount(strategy, ro)
  IN maxRetries >= 0 /\ ro.attempts >= maxRetries

\* C2: the strategies are asked in chain order and the first one whose
\* shouldRetry answers true decides alone: no later strategy is asked, the
\* delay, cap and request options are that strategy's, and when it is stopped
\* by its cap the answer is no retry even if a later strategy would retry.
C2_FirstMatchWins ==
  Called =>
    LET ch == getRetryStrategies(options)
        ro == decision.retryOptions
        matching == {i \in 1..Len(ch) : shouldRetry(ch[i], ro)}
    IN IF matching = {}
       THEN decision.winner = 0 /\ decision.consulted = Len(ch) /\ ~decision.retry
       ELSE LET first == CHOOSE i \in matching : \A j \in matching : i <= j
            IN /\ decision.winner = first
               /\ decision.consulted = first
               /\ decision.maxRetries = getMaxRetryCount(ch[first], ro)
               /\ C2_Capped(ch[first], ro) => ~decision.retry
               /\ decision.retry =>
                    /\ decision.baseDelay = getRetryDelayOf(ch[first], ro)
                    /\ decision.baseMultiple = getRetryDelayMultipleOf(ch[first], ro)
                    /\ decision.options = getRetryRequestOptions(ch[first], ro)

\* The first match is stopped by its cap and a later strategy would retry.
C2_Witness ==
  /\ Called
  /\ decision.winner >= 1
  /\ ~decision.retry
  /\ \E j \in (decision.winner + 1)..Len(getRetryStrategies(options)) :
       /\ shouldRetry(getRetryStrategies(options)[j], decision.retryOptions)
       /\ ~C2_Capped(getRetryStrategies(options)[j], decision.retryOptions)

C3_Flag(kind) ==
  CASE kind = "EventuallyConsistentCreate" ->
         Get(getClientOptions(options), "eventuallyConsistentCreate", FALSE)
    [] kind = "EventuallyConsistentUpdate" ->
         Get(getClientOptions(options), "eventuallyConsistentUpdate", FALSE)
    [] kind = "EventuallyConsistentDelete" ->
         Get(getClientOptions(options), "eventuallyConsistentDelete", FALSE)

C3_Configured ==
  Get(Get(getClientOptions(options), "retry", EmptyObj), "strategies", <<>>)

\* C3: getRetryStrategies returns ErrorStatusCode, NetworkError, the
\* configured custom strategies in their order, then EventuallyConsistentCreate,
\* Update and Delete, each only when its flag is true; with no flag and no
\* custom strategy it returns the two built-ins alone.
C3_ChainOrder ==
  chain # <<>> =>
    LET n == Len(C3_Configured)
        optIn == SelectSeq(<<"EventuallyConsistentCreate", "EventuallyConsistentUpdate",
                             "EventuallyConsistentDelete">>, C3_Flag)
    IN /\ Len(chain) = 2 + n + Len(optIn)
       /\ chain[1].kind = "ErrorStatusCode"
       /\ chain[2].kind = "NetworkError"
       /\ \A i \in 1..n :
            chain[2 + i].kind = "RetryStrategy" /\ chain[2 + i].options = C3_Configured[i]
       /\ \A i \in 1..Len(optIn) : chain[2 + n + i].kind = optIn[i]
       /\ (n = 0 /\ optIn = <<>>) => Len(chain) = 2

\* Two custom strategies and the three flags: seven strategies.
C3_Witness ==
  /\ Len(chain) = 7
  /\ Len(C3_Configured) = 2
  /\ C3_Configured[1] # C3_Configured[2]
  /\ chain[7].kind = "EventuallyConsistentDelete"

\* C4 as stated: once a strategy signals retry and its cap is any integer
\* other than -1, an attempt with attempts >= cap is not retried.
C4_GateUnlessMinusOne ==
  (Called /\ decision.winner >= 1
     /\ decision.maxRetries # 0 - 1
     /\ decision.retryOptions.attempts >= decision.maxRetries)
  => ~decision.retry

\* C4, amended: the gate stops an attempt with attempts >= cap for every cap
\* >= 0 (0 included); a negative cap, -1 or below, never stops a retry.
C4_GateForNonNegativeCap ==
  (Called /\ decision.winner >= 1) =>
    /\ (decision.maxRetries >= 0 /\ decision.retryOptions.attempts >= decision.maxRetries)
         => ~decision.retry
    /\ decision.maxRetries < 0 => decision.retry

\* A cap of 0 stops the first attempt.
C4_Witness ==
  /\ Called
  /\ decision.winner >= 1
  /\ decision.maxRetries = 0
  /\ decision.retryOptions.attempts = 1
  /\ ~decision.retry

C7_HeaderSeconds ==
  LET headers == Get(raw.response, "headers", EmptyObj)
  IN IF Has(headers, "retry-after") THEN parseInt(headers["retry-after"])
     ELSE IF Has(headers, "Retry-After") THEN parseInt(headers["Retry-After"])
     ELSE NaN

\* C7: a response with a Retry-After header of s >= 0 seconds makes every
\* strategy see delay = s * 1000 and delayMultiple = 1, and a winning
\* strategy that overrides neither waits s * 1000 ms at any attempt.
C7_RetryAfterOverride ==
  (Called /\ C7_HeaderSeconds # NaN) =>
    /\ decision.retryOptions.delay = C7_HeaderSeconds * 1000
    /\ decision.retryOptions.delayMultiple = 1
    /\ (decision.retry /\ OverridesNothing(Winner)) => decision.delay = C7_HeaderSeconds * 1000

(***************************************************************************)
(* Properties of the attempt loop, checked under Spec.                     *)
(***************************************************************************)
\* C5: when the winning strategy's cap resolves to -1 the gate never fires:
\* the decision is to retry at every attempt, and the loop goes on.
C5_MinusOneNeverGated ==
  (Called /\ decision.winner >= 1 /\ decision.maxRetries = 0 - 1) =>
    (decision.retry /\ pc # "done")

\* A fourth attempt, past the default cap of 3, is retried.
C5_Witness ==
  /\ Called
  /\ decision.winner >= 1
  /\ decision.maxRetries = 0 - 1
  /\ decision.retryOptions.attempts > DEFAULT_RETRY_COUNT
  /\ decision.retryOptions.maxAttempts = DEFAULT_RETRY_COUNT
  /\ decision.retry
  /\ Len(waits) > DEFAULT_RETRY_COUNT

\* C8: for each retried attempt the bookkeeping comes first (the summary is
\* appended, retries grows by one, the delay is added to retryWait), then the
\* wait, then the resubmission with the merged options: every send after the
\* first has its own wait behind it and every wait its own addRetry.
C8_BookkeepWaitResubmit ==
  /\ adds = Len(waits) + (IF pc = "sleeping" THEN 1 ELSE 0)
  /\ sends = Len(waits) + (IF pc \in {"inflight", "responded", "ended", "sleeping", "done"} THEN 1 ELSE 0)
  /\ pc = "sleeping" =>
       LET before == decision.retryOptions.options
       IN /\ getRetries(booked) = getRetries(before) + 1
          /\ getRetryWait(booked) = getRetryWait(before) + decision.delay
          /\ getRetryResponses(booked)
               = Append(getRetryResponses(before), HttpResponse_toJSON(envelopeOf(raw), EmptyObj))
          /\ \A k \in DOMAIN decision.options \ {"cloudClient"} : options[k] = decision.options[k]
          /\ \A k \in DOMAIN booked \ DOMAIN decision.options : options[k] = booked[k]

\* The third send of a request: two retries were booked and waited for.
C8_Witness ==
  /\ pc = "inflight"
  /\ sends = 3
  /\ adds = 2
  /\ Len(waits) = 2
  /\ getRetries(options) = 2

\* What the caller configured: the request's options with the global ones.
Configured == mergeClientOptions(request, global)

ConfiguredStrategies ==
  Get(Get(getClientOptions(Configured), "retry", EmptyObj), "strategies", <<>>)

\* Every strategy of the request leaves the cap to retry.count.
AllUseConfiguredCap ==
  \A i \in 1..Len(ConfiguredStrategies) : ~Has(ConfiguredStrategies[i], "getMaxRetries")

\* Some strategy of the request signals a retry for this outcome.
Retryable(outcome) ==
  retryWithStrategies(Configured, envelopeOf(outcome), 1).winner >= 1

RECURSIVE Sum(_)
Sum(s) == IF s = <<>> THEN 0 ELSE Head(s) + Sum(Tail(s))

\* The summaries of the attempts that were retried: all but the last.
RetriedSummaries ==
  [i \in 1..(Len(history) - 1) |-> HttpResponse_toJSON(envelopeOf(history[i]), EmptyObj)]

LastRaw ==
  LET last == history[Len(history)]
  IN IF last.error # NoError THEN last.error ELSE last.response

\* C6: when every outcome is retryable and every strategy uses the configured
\* cap M = retry.count >= 1, the loop ends after exactly M sends with
\* retries = M - 1, and the caller gets the M-th attempt's raw response or
\* raw error with the accumulated retries, retryWait and retryResponses.
C6_ExhaustionAfterCap ==
  LET M == getMaxRetries(Configured)
  IN (/\ M >= 1
      /\ AllUseConfiguredCap
      /\ \A i \in 1..Len(history) : Retryable(history[i]))
     => /\ sends <= M
        /\ Len(history) < M => pc # "done"
        /\ (Len(history) = M /\ pc \notin {"responded", "ended"}) => pc = "done"
        /\ pc = "done" =>
             /\ sends = M
             /\ getRetries(result.cloudClient.options) = M - 1
             /\ getRetryWait(result.cloudClient.options) = Sum(waits)
             /\ getRetryResponses(result.cloudClient.options) = RetriedSummaries
             /\ result.value = LastRaw
             /\ result.thrown = (history[M].error # NoError)

\* C10: when the loop ends, the result's retries is the number of attempts
\* that were retried, its retryWait the sum of the delays waited, its
\* retryResponses the summaries of the retried attempts in order, and the
\* result itself the last attempt's raw response or error.
C10_FinalAccounting ==
  pc = "done" =>
    /\ getRetries(result.cloudClient.options) = Len(history) - 1
    /\ getRetries(result.cloudClient.options) = adds
    /\ getRetryWait(result.cloudClient.options) = Sum(waits)
    /\ getRetryResponses(result.cloudClient.options) = RetriedSummaries
    /\ result.value = LastRaw

(***************************************************************************)
(* Properties of addRetry alone, checked under SpecAddRetry.               *)
(***************************************************************************)
\* C9 as stated: after every addRetry call, whatever the options were
\* constructed with, retries equals the length of retryResponses.
C9_RetriesEqualsResponses ==
  adds >= 1 => getRetries(options) = Len(getRetryResponses(options))

\* C9, amended: every addRetry call adds one to retries and one summary to
\* retryResponses, so the two differ by what they differed by at
\* construction, and are equal when they were constructed equal.
C9_AddRetryCountsInStep ==
  /\ getRetries(options) = getRetries(request) + adds
  /\ Len(getRetryResponses(options)) = Len(getRetryResponses(request)) + adds
  /\ getRetries(request) = Len(getRetryResponses(request))
       => getRetries(options) = Len(getRetryResponses(options))

\* Two addRetry calls on options constructed without retry bookkeeping.
C9_Witness ==
  /\ adds = 2
  /\ request = [url |-> Url]
  /\ getRetries(options) = 2
  /\ Len(getRetryResponses(options)) = 2

(***************************************************************************)
(* Properties of the final step of the attempt loop, checked under Spec.   *)
(***************************************************************************)
\* C11: when no strategy matches or the max-retry gate fires,
\* getRetryOptionsFromResponse returns false and leaves retries, retryWait
\* and retryResponses as they were; the current response or error is handed
\* to the caller and nothing more is sent.
C11_NoRetryIsFinal ==
  [][(pc = "ended"
        /\ ~retryWithStrategies(options, envelopeOf(raw), getRetries(options) + 1).retry)
     => LET info == retryWithStrategies(options, envelopeOf(raw), getRetries(options) + 1)
        IN /\ info.winner = 0
                \/ (info.maxRetries >= 0 /\ getRetries(options) + 1 >= info.maxRetries)
           /\ pc' = "done"
           /\ sends' = sends
           /\ adds' = adds
           /\ waits' = waits
           /\ getRetries(options') = getRetries(options)
           /\ getRetryWait(options') = getRetryWait(options)
           /\ getRetryResponses(options') = getRetryResponses(options)
           /\ getRetries(result'.cloudClient.options) = getRetries(options)
           /\ getRetryWait(result'.cloudClient.options) = getRetryWait(options)
           /\ getRetryResponses(result'.cloudClient.options) = getRetryResponses(options)
           /\ result'.value = (IF raw.error # NoError THEN raw.error ELSE raw.response)
           /\ result'.thrown = (raw.error # NoError)]_vars

\* A 200 that no strategy matches is final at the first evaluation.
C11_Witness ==
  /\ pc = "done"
  /\ sends = 1
  /\ decision.winner = 0
  /\ ~decision.retry
  /\ statusOf(raw.response) = 200
  /\ getRetries(options) = 0
  /\ getRetryResponses(options) = <<>>
  /\ ~result.thrown

(***************************************************************************)
(* Properties of the built-in strategies, checked under SpecCalls.         *)
(***************************************************************************)
\* C12: ErrorStatusCode signals retry exactly when status >= 500 and
\* NetworkError exactly when the response has no status field; at most one
\* of the two fires for a response, neither fires for a 200, and the answers
\* do not depend on the attempt number.
C12_BuiltInShouldRetry ==
  Called =>
    LET ro == decision.retryOptions
        byStatus == shouldRetry(BuiltIn("ErrorStatusCode"), ro)
        byNetwork == shouldRetry(BuiltIn("NetworkError"), ro)
    IN /\ byStatus <=> (hasStatus(ro.response) /\ ro.response["status"] >= 500)
       /\ byNetwork <=> ~hasStatus(ro.response)
       /\ ~(byStatus /\ byNetwork)
       /\ statusOf(ro.response) = 200 => (~byStatus /\ ~byNetwork)
       /\ \A a \in 1..MaxAttempts :
            /\ shouldRetry(BuiltIn("ErrorStatusCode"), [ro EXCEPT !.attempts = a]) = byStatus
            /\ shouldRetry(BuiltIn("NetworkError"), [ro EXCEPT !.attempts = a]) = byNetwork
       /\ byStatus => decision.winner = 1
       /\ byNetwork => decision.winner = 2

\* A response without status on a second attempt: NetworkError answers.
C12_Witness ==
  /\ Called
  /\ ~hasStatus(raw.response)
  /\ decision.winner = 2
  /\ decision.retryOptions.attempts = 2
  /\ decision.retry

(***************************************************************************)
(* The eventually consistent strategies in the attempt loop, checked under *)
(* Spec.                                                                   *)
(***************************************************************************)
\* The statuses of the outcomes received so far, in order.
Statuses == [i \in 1..Len(history) |-> statusOf(history[i].response)]

AllAre(status) == \A i \in 1..Len(history) : Statuses[i] = status

Evaluated == pc \in {"sleeping", "begin", "inflight", "done"} /\ Len(history) >= 1

\* C13: with eventuallyConsistentCreate and default retry settings a 404 is
\* retried, and only because of the flag: 404,404,200 ends with retries 2 and
\* the 200 returned, and a resource that never appears ends after 3 sends
\* with retries 2, retryWait 3000 and the 404 handed back.
C13_EventuallyConsistentCreate ==
  /\ (request = Request([eventuallyConsistentCreate |-> TRUE]) /\ global = EmptyObj) =>
       /\ (AllAre(404) /\ Len(history) < DEFAULT_RETRY_COUNT) => pc # "done"
       /\ (AllAre(404) /\ Evaluated /\ decision.retry) =>
            getRetryStrategies(options)[decision.winner].kind = "EventuallyConsistentCreate"
       /\ (pc = "done" /\ Statuses = <<404, 404, 200>>) =>
            /\ getRetries(result.cloudClient.options) = 2
            /\ ~result.thrown
            /\ statusOf(result.value) = 200
       /\ AllAre(404) => sends <= DEFAULT_RETRY_COUNT
       /\ (pc = "done" /\ AllAre(404)) =>
            /\ sends = 3
            /\ getRetries(result.cloudClient.options) = 2
            /\ getRetryWait(result.cloudClient.options) = 3000
            /\ statusOf(result.value) = 404
  /\ (request = [url |-> Url] /\ global = EmptyObj /\ Evaluated /\ Statuses[1] = 404) =>
       (pc = "done" /\ sends = 1 /\ getRetries(result.cloudClient.options) = 0)

\* Scenario B: 404, 404, 200.
C13_Witness ==
  /\ request = Request([eventuallyConsistentCreate |-> TRUE])
  /\ global = EmptyObj
  /\ pc = "done"
  /\ Statuses = <<404, 404, 200>>
  /\ getRetries(result.cloudClient.options) = 2

\* C14: with eventuallyConsistentDelete every response that has a status
\* other than 404 is retried, a response without status is not retried by
\* this strategy: 200 then 404 ends with retries 1 and the 404 as the result,
\* and a resource that never disappears ends after 3 sends with retries 2,
\* retryWait 3000 and the last 200 returned.
C14_EventuallyConsistentDelete ==
  (request = Request([eventuallyConsistentDelete |-> TRUE]) /\ global = EmptyObj) =>
    /\ (Len(history) = sends /\ sends >= 1 /\ sends < DEFAULT_RETRY_COUNT
          /\ Statuses[sends] \notin {404, NoStatus}) => pc # "done"
    /\ \A i \in 1..Len(history) :
         LET ro == [response |-> IF history[i].response = NoResponse THEN EmptyObj
                                 ELSE history[i].response,
                    options |-> options]
         IN EventuallyConsistentDelete_shouldRetry(ro)
              <=> (hasStatus(ro.response) /\ Statuses[i] # 404)
    /\ (Evaluated /\ decision.retry /\ Statuses[Len(history)] = NoStatus) =>
         getRetryStrategies(options)[decision.winner].kind = "NetworkError"
    /\ (Len(history) >= 2 /\ Statuses[1] = 200 /\ Statuses[2] = 404
          /\ pc \notin {"responded", "ended"}) =>
         /\ pc = "done"
         /\ sends = 2
         /\ getRetries(result.cloudClient.options) = 1
         /\ statusOf(result.value) = 404
    /\ AllAre(200) => sends <= DEFAULT_RETRY_COUNT
    /\ (AllAre(200) /\ Len(history) < DEFAULT_RETRY_COUNT) => pc # "done"
    /\ (pc = "done" /\ AllAre(200)) =>
         /\ sends = 3
         /\ getRetries(result.cloudClient.options) = 2
         /\ getRetryWait(result.cloudClient.options) = 3000
         /\ statusOf(result.value) = 200
         /\ ~result.thrown

\* Scenario D: 200 then 404.
C14_Witness ==
  /\ request = Request([eventuallyConsistentDelete |-> TRUE])
  /\ global = EmptyObj
  /\ pc = "done"
  /\ Statuses = <<200, 404>>
  /\ getRetries(result.cloudClient.options) = 1
  /\ statusOf(result.value) = 404

(***************************************************************************)
(* Properties of the cookie handling, checked under SpecCookies.           *)
(***************************************************************************)

\* The cookies a request configuration puts on the wire: one occurrence per
\* pair of every header named cookie in any case.
sentOccurrences(config) ==
  LET headers == Get(config, "headers", EmptyObj)
  IN UNION {{<<k, i>> : i \in 1..Len(headers[k])} : k \in cookieHeaderNames(headers)}

sentPair(config, occurrence) == config["headers"][occurrence[1]][occurrence[2]]

\* The cookies of the header the caller gave the request.
ownPairs(callerOptions) ==
  LET own == parseCookieHeader(cookieHeader(Get(callerOptions, "headers", EmptyObj)))
  IN {<<own[i]["key"], own[i]["value"]>> : i \in 1..Len(own)}

\* The cookies of the client's jar that apply to a URL, as name and value.
jarPairs(clientJar, url, time) ==
  LET applicable == CookieJar_getCookies(clientJar, url, time)
  IN {<<applicable[i]["key"], applicable[i]["value"]>> : i \in 1..Len(applicable)}

\* What the merge policy sends: the caller's cookies, and the jar's under
\* the names the caller did not use.
mergePolicy(callerOptions, clientJar, url, time) ==
  ownPairs(callerOptions)
  \cup {p \in jarPairs(clientJar, url, time) :
          \A q \in ownPairs(callerOptions) : q[1] # p[1]}

\* The configuration sends these cookies and no other, and each name of
\* the caller's header once.
sendsExactly(config, callerOptions, pairs) ==
  /\ \A q \in ownPairs(callerOptions) :
       Cardinality({o \in sentOccurrences(config) : sentPair(config, o)[1] = q[1]}) = 1
  /\ {sentPair(config, o) : o \in sentOccurrences(config)} = pairs

\* C15: when an attempt starts under handleCookies, the request goes out
\* with exactly the caller's own cookies plus the jar's cookies for the URL
\* under names the caller did not use, and every name of the caller's header
\* is sent once.
C15_MergeOnRequestStart ==
  [][(pc = "begin" /\ pc' = "inflight" /\ handleCookies)
       => sendsExactly(options', request,
                       mergePolicy(request, jar, getUrl(options), now))]_vars

\* C16: without handleCookies the jar plays no part in a request: every
\* attempt goes out with the headers the caller supplied, whatever the jar
\* holds for the URL, and neither the start nor the end of an attempt
\* changes the jar, whatever Set-Cookie the response carries.
C16_NoHandlingPassThrough ==
  [][~handleCookies =>
       /\ (pc = "begin" /\ pc' = "inflight")
            => /\ Get(options', "headers", EmptyObj) = Get(request, "headers", EmptyObj)
               /\ jar' = jar
       /\ (pc = "responded" /\ pc' = "ended") => jar' = jar]_vars

C16_Witness ==
  /\ ~handleCookies
  /\ pc = "ended"
  /\ Has(request, "headers")
  /\ Len(CookieJar_getCookies(jar, getUrl(options), now)) > 0
  /\ raw.response # NoResponse
  /\ Len(getSetCookies(raw.response)) > 0

\* The Set-Cookie entries of a raw response as the jar stores them for a URL.
storedFrom(rawResponse, url) ==
  {storedCookie(Cookie_parse(getSetCookies(rawResponse)[i]), url) :
     i \in 1..Len(getSetCookies(rawResponse))}

jarSet(clientJar) == {clientJar[i] : i \in 1..Len(clientJar)}

\* C17: under handleCookies the end of every attempt that got a response,
\* with or without an error, leaves the response's Set-Cookie entries in the
\* jar before the retry decision is taken, the end of an attempt without a
\* response leaves the jar as it was, and every attempt that starts
\* afterwards carries the jar's cookies for its URL under the names the
\* caller did not use.
C17_StoredOnEveryResponse ==
  [][handleCookies =>
       /\ (pc = "responded" /\ pc' = "ended" /\ raw.response # NoResponse)
            => /\ storedFrom(raw.response, getUrl(options)) \subseteq jarSet(jar')
               /\ decision' = decision
       /\ (pc = "responded" /\ pc' = "ended" /\ raw.response = NoResponse) => jar' = jar
       /\ (pc = "begin" /\ pc' = "inflight")
            => \A p \in jarPairs(jar, getUrl(options), now) :
                 (\A q \in ownPairs(request) : q[1] # p[1])
                   => p \in {sentPair(options', o) : o \in sentOccurrences(options')}]_vars

sentPairs(config) == {sentPair(config, o) : o \in sentOccurrences(config)}

\* C18: the jar loses an unexpired cookie only when clearCookies is called;
\* once it was called and until a response stores a Set-Cookie, getCookies
\* finds nothing for any URL and an attempt that starts carries the caller's
\* own cookies only; and an attempt that starts carries every unexpired
\* cookie the jar holds for its URL under a name the caller did not use.
C18_LostOnlyByClear ==
  [][/\ cleared' => \A u \in CookieUrls : CookieJar_getCookies(jar', u, now') = <<>>
     /\ \A c \in jarSet(jar) :
          (~isExpired(c, now) /\ ~(\E d \in jarSet(jar') : sameCookie(c, d)))
            => (cleared' /\ ~cleared)
     /\ (handleCookies /\ pc = "begin" /\ pc' = "inflight")
          => /\ cleared => sentPairs(options') \subseteq ownPairs(request)
             /\ {p \in jarPairs(jar, getUrl(options), now) :
                   \A q \in ownPairs(request) : q[1] # p[1]}
                  \subseteq sentPairs(options')]_vars

withinScope(cookie, url) ==
  /\ domainMatch(url.hostname, cookie["domain"])
  /\ pathMatch(url.pathname, cookie["path"])
  /\ cookie["secure"] => url.protocol = "https"

attachedInScopeOnly(clientJar, time) ==
  \A u \in CookieUrls :
    \A i \in 1..Len(CookieJar_getCookies(clientJar, u, time)) :
      withinScope(CookieJar_getCookies(clientJar, u, time)[i], u)

\* The Set-Cookie entries of a raw response that have no attribute.
plainSetCookies(rawResponse) ==
  {getSetCookies(rawResponse)[i] :
     i \in {j \in 1..Len(getSetCookies(rawResponse)) :
              DOMAIN getSetCookies(rawResponse)[j] = {"key", "value"}}}

expiredPairs ==
  UNION {{<<l[i]["key"], l[i]["value"]>> :
            i \in {j \in 1..Len(l) : isExpired(Cookie_parse(l[j]), 1)}} :
         l \in SetCookieLists}

\* C20: the jar never holds two records of one name, domain and path and
\* never gives an expired cookie for a URL; once a response's Set-Cookie is
\* stored, an expired one leaves no cookie of its name, domain and path to
\* be given for any URL, and an unexpired one is the only record of its
\* name, domain and path; and no attempt that starts carries an expired
\* Set-Cookie or leaves an expired record for its URL in the jar.
C20_ExpiredRemovesNewerReplaces ==
  [][/\ \A i, j \in 1..Len(jar') : sameCookie(jar'[i], jar'[j]) => i = j
     /\ \A u \in CookieUrls :
          LET given == jarSet(CookieJar_getCookies(jar', u, now'))
          IN /\ \A c \in given : ~isExpired(c, now')
             /\ (handleCookies /\ pc = "responded" /\ pc' = "ended" /\ raw.response # NoResponse)
                  => \A e \in storedFrom(raw.response, getUrl(options)) :
                       isExpired(e, now') => \A c \in given : ~sameCookie(c, e)
     /\ (handleCookies /\ pc = "responded" /\ pc' = "ended" /\ raw.response # NoResponse)
          => \A e \in storedFrom(raw.response, getUrl(options)) :
               ~isExpired(e, now') => \A c \in jarSet(jar') : sameCookie(c, e) => c = e
     /\ (handleCookies /\ pc = "begin" /\ pc' = "inflight")
          => /\ sentPairs(options') \cap expiredPairs = {}
             /\ \A c \in jarSet(jar') : inScope(c, getUrl(options)) => ~isExpired(c, now)]_vars

\* A cookie stored from a retried response was replaced by an expired
\* Set-Cookie of the next response.
C20_Witness ==
  /\ handleCookies
  /\ pc = "ended"
  /\ Len(history) = 2
  /\ getSetCookies(history[1].response) = << SetCookie("sid", "new", EmptyObj) >>
  /\ \E e \in storedFrom(raw.response, getUrl(options)) :
       /\ isExpired(e, now)
       /\ e \in jarSet(jar)
       /\ e["key"] = "sid"

(***************************************************************************)
(* Properties of parseMultipleFetchSetCookieHeaders, checked under         *)
(* SpecParse.                                                              *)
(***************************************************************************)

\* The strings of a list joined with ", ".
RECURSIVE joinFrom(_, _)
joinFrom(list, i) ==
  IF i > Len(list) THEN <<>>
  ELSE IF i = Len(list) THEN list[i]
  ELSE list[i] \o <<",", " ">> \o joinFrom(list, i + 1)

\* The lists of cookies whose ", "-join is a header value: the pieces of the
\* value, cut into cookies before the pieces of a set of positions.
RECURSIVE cutAt(_, _, _, _)
cutAt(pieces, starts, i, cookie) ==
  IF i > Len(pieces) THEN <<cookie>>
  ELSE IF i \in starts THEN <<cookie>> \o cutAt(pieces, starts, i + 1, pieces[i])
  ELSE cutAt(pieces, starts, i + 1, cookie \o <<",", " ">> \o pieces[i])

cookieLists(headerValue) ==
  LET pieces == splitFrom(headerValue, 1, <<>>)
  IN {cutAt(pieces, starts, 2, pieces[1]) : starts \in SUBSET (2..Len(pieces))}

\* A cookie contains ", " followed by token=.
holdsCookieStart(cookie) ==
  \E i \in 2..Len(splitFrom(cookie, 1, <<>>)) : beginsCookie(splitFrom(cookie, 1, <<>>)[i])

\* A cookie has an empty piece: it ends with ", " or holds ", , ".
holdsEmptyPiece(cookie) ==
  \E i \in 2..Len(splitFrom(cookie, 1, <<>>)) : splitFrom(cookie, 1, <<>>)[i] = <<>>

\* C21 as stated: the empty string parses to no cookie, and every list of
\* cookies that begin with token= and hold no ", " followed by token= is
\* what their ", "-join parses to.
C21_ParseOfJoin ==
  pc = "done" =>
    /\ raw = <<>> => result = <<>>
    /\ \A cookies \in cookieLists(raw) :
         (\A i \in 1..Len(cookies) : beginsCookie(cookies[i]) /\ ~holdsCookieStart(cookies[i]))
           => result = cookies

\* C21 as amended: the same for cookies that, besides, hold no empty piece.
C21_ParseOfJoinWithoutEmptyPieces ==
  pc = "done" =>
    /\ raw = <<>> => result = <<>>
    /\ \A cookies \in cookieLists(raw) :
         (\A i \in 1..Len(cookies) :
            beginsCookie(cookies[i]) /\ ~holdsCookieStart(cookies[i])
              /\ ~holdsEmptyPiece(cookies[i]))
           => result = cookies

\* Two cookies were parsed out of the value they were joined to.
C21_Witness ==
  /\ pc = "done"
  /\ Len(result) = 2
  /\ joinFrom(result, 1) = raw
  /\ \A i \in 1..Len(result) :
       beginsCookie(result[i]) /\ ~holdsCookieStart(result[i]) /\ ~holdsEmptyPiece(result[i])

(***************************************************************************)
(* Properties of the summaries (SpecSummaries).                            *)
(***************************************************************************)
\* The envelope toClientResponse worked on.
called == envelopeOf(raw)

\* C22: toClientResponse sets cloudClient, made of the supplied extra
\* information plus the envelope's own summary, on the raw response and on
\* the error when there is one; it throws the error if there is one and
\* returns the raw response otherwise; the object itself is the one the
\* transport produced.
C22_ThrowsErrorElseReturnsRaw ==
  pc = "toClientResponse" =>
    LET summary == HttpResponse_toJSON(called, request.requestTime)
    IN /\ result.thrown = (raw.error # NoError)
       /\ result.value = IF raw.error # NoError THEN raw.error ELSE called.rawResponse
       /\ result.response = called.rawResponse
       /\ \A k \in DOMAIN summary :
            Has(result.cloudClient, k) /\ result.cloudClient[k] = summary[k]
       /\ \A k \in (DOMAIN request.clientInfo) \ (DOMAIN summary) :
            Has(result.cloudClient, k) /\ result.cloudClient[k] = request.clientInfo[k]
       /\ DOMAIN result.cloudClient = (DOMAIN summary) \cup (DOMAIN request.clientInfo)

\* An error next to a response with headers is thrown as it was, with the
\* extra information and the summary on it.
C22_Witness ==
  /\ pc = "toClientResponse"
  /\ raw.error = [hello |-> "world"]
  /\ Has(raw.response, "headers")
  /\ result.thrown
  /\ result.value = raw.error
  /\ Has(result.cloudClient, "options")
  /\ Has(result.cloudClient, "requestTime")
  /\ Has(result.cloudClient, "error")


(***************************************************************************)
(* Timeouts in the attempt loop (Spec).  The transport aborts the call and *)
(* the attempt ends in an error without a response.                        *)
(***************************************************************************)
\* Every attempt so far was aborted by the timeout.
AllTimedOut ==
  /\ Len(history) >= 1
  /\ \A i \in 1..Len(history) : history[i].response = NoResponse /\ history[i].error = AnError

\* The request and the client configure no strategy of their own.
OnlyBuiltIn ==
  /\ global = EmptyObj
  /\ ~Has(Get(Get(request, "cloudClient", EmptyObj), "retry", EmptyObj), "strategies")

\* The waits of a request retried n times under its configured backoff.
Backoff(o, n) == [i \in 1..n |-> getRetryDelay(o) * mathPow(getRetryDelayMultiple(o), i - 1)]

\* C23: an attempt aborted by the timeout reaches the retry pipeline as a
\* response with no status and is retried by NetworkError under the
\* configured cap and backoff; a request whose every attempt times out is
\* rejected after retry.count sends with retries = count - 1 (2 and
\* retryWait 3000 with defaults) and one retryResponses entry per retried
\* attempt holding the error's name and message.
C23_TimeoutsAreRetriedAsNetworkErrors ==
  (AllTimedOut /\ OnlyBuiltIn) =>
    LET count == getMaxRetries(request)
    IN /\ \A i \in 1..Len(history) : ~hasStatus(envelopeOf(history[i]).rawResponse)
       /\ (Evaluated /\ decision.retry) =>
            getRetryStrategies(options)[decision.winner].kind = "NetworkError"
       /\ sends <= count
       /\ Len(history) < count => pc # "done"
       /\ Len(waits) <= Len(history)
       /\ \A i \in 1..Len(waits) : waits[i] = Backoff(request, i)[i]
       /\ pc = "done" =>
            /\ result.thrown
            /\ result.value = AnError
            /\ sends = count
            /\ getRetries(result.cloudClient.options) = count - 1
            /\ getRetryWait(result.cloudClient.options) = Sum(Backoff(request, count - 1))
            /\ getRetryResponses(result.cloudClient.options)
                 = [i \in 1..(count - 1) |-> [error |-> [name |-> AnError.name, message |-> AnError.message]]]
            /\ request = [url |-> Url] =>
                 /\ getRetries(result.cloudClient.options) = 2
                 /\ getRetryWait(result.cloudClient.options) = 3000

\* The default request timed out three times and was rejected.
C23_Witness ==
  /\ AllTimedOut
  /\ OnlyBuiltIn
  /\ request = [url |-> Url]
  /\ pc = "done"
  /\ sends = 3
  /\ result.thrown
  /\ Len(getRetryResponses(result.cloudClient.options)) = 2


(***************************************************************************)
(* Properties of mergeClientOptions (SpecMerge).                           *)
(***************************************************************************)
\* after holds every key of own with own's value and every other key of
\* added with added's value, the keys in except aside.
keepsOwnAddsMissing(own, added, after, except) ==
  /\ DOMAIN after = (DOMAIN own) \cup (DOMAIN added)
  /\ \A k \in (DOMAIN own) \ except : after[k] = own[k]
  /\ \A k \in (DOMAIN added) \ ((DOMAIN own) \cup except) : after[k] = added[k]

\* C24: mergeClientOptions(global) never overwrites a value of the options
\* it is called on: keys set on both sides keep the options' value, keys
\* only in the global options are added, the retry sub-object is merged
\* field by field under the same rule, and the strategies list is the
\* options' strategies followed by the global ones.
C24_MergeNeverOverwrites ==
  [][CallMergeClientOptions =>
       LET own == getClientOptions(options)
           after == getClientOptions(options')
           ownRetry == Get(own, "retry", EmptyObj)
           globalRetry == Get(global, "retry", EmptyObj)
           afterRetry == Get(after, "retry", EmptyObj)
       IN /\ keepsOwnAddsMissing(own, global, after, {"retry"})
          /\ keepsOwnAddsMissing(ownRetry, globalRetry, afterRetry, {"strategies"})
          /\ Has(afterRetry, "strategies") =>
               afterRetry["strategies"]
                 = Get(ownRetry, "strategies", <<>>) \o Get(globalRetry, "strategies", <<>>)
          /\ Without(options', "cloudClient") = Without(options, "cloudClient")]_vars

\* Both sides set timeout, retry.delay and strategies: the request's timeout
\* and delay are kept, the global count is added and the global strategies
\* follow the request's.
C24_Witness ==
  /\ pc = "merged"
  /\ Get(getClientOptions(request), "timeout", 0) = 1000
  /\ Get(global, "timeout", 0) = 2000
  /\ Get(getClientOptions(options), "timeout", 0) = 1000
  /\ Has(getClientOptions(options), "retry")
  /\ Get(getClientOptions(options)["retry"], "delay", 0) = 10
  /\ Get(getClientOptions(options)["retry"], "count", 0) = 2
  /\ Get(getClientOptions(options)["retry"], "strategies", <<>>)
       = <<CappedAtOne, CappedAtZero, Unbounded, CappedAtOne>>

(***************************************************************************)
(* Properties of the snapshots (SpecSummaries).                            *)
(***************************************************************************)
Sensitive(name) == lowerCase(name) \in {"authorization", "cookie"}

\* Two header objects that differ at most in the values of their
\* Authorization and Cookie headers.
sameButSecrets(h1, h2) ==
  /\ DOMAIN h1 = DOMAIN h2
  /\ \A k \in DOMAIN h1 : Sensitive(k) \/ h1[k] = h2[k]

\* C25: the snapshot of HttpOptions.toJSON never holds the value of an
\* Authorization or Cookie request header, in any letter case: those values
\* are redacted, all other headers are left intact, and two requests that
\* differ only in those values have the same snapshot.
C25_OptionsSnapshotRedacts ==
  pc = "optionsToJSON" =>
    LET headers == Get(options, "headers", EmptyObj)
    IN /\ \A h \in DOMAIN headers :
            /\ Has(result["headers"], h)
            /\ result["headers"][h] = IF Sensitive(h) THEN Redacted ELSE headers[h]
       /\ \A other \in SummaryOptions :
            (/\ Without(other, "headers") = Without(options, "headers")
             /\ sameButSecrets(Get(other, "headers", EmptyObj), headers))
              => HttpOptions_toJSON(other, uuids) = result


\* The summary has no keys but the five, no body, and its headers are the
\* response's with the Authorization and Cookie values replaced.
summaryKeysAndHeaders ==
  LET rawResponse == envelopeOf(raw).rawResponse
  IN /\ DOMAIN result \subseteq {"status", "statusText", "headers", "requestTime", "error"}
     /\ ~Has(result, "body")
     /\ Has(result, "headers") <=> Has(rawResponse, "headers")
     /\ Has(result, "headers") =>
          /\ DOMAIN result["headers"] = DOMAIN rawResponse["headers"]
          /\ \A h \in DOMAIN rawResponse["headers"] :
               result["headers"][h] = IF Sensitive(h) THEN Redacted ELSE rawResponse["headers"][h]
     /\ Has(result, "error") <=> raw.error # NoError

\* The summary's error is the error's name and message and nothing else.
onlyNameAndMessage ==
  /\ DOMAIN result["error"] \subseteq {"name", "message"}
  /\ \A k \in DOMAIN result["error"] : result["error"][k] = raw.error[k]
  /\ \A k \in {"name", "message"} : Has(raw.error, k) => Has(result["error"], k)

\* C26 as stated: the summary has no keys other than status, statusText,
\* headers, requestTime and error, never a body, authorization and cookie
\* header values in any case replaced by '<redacted>' with other headers
\* unchanged, and error, when present, holds only the error's name and
\* message.
C26_SummaryErrorOnlyNameAndMessage ==
  pc = "responseToJSON" =>
    /\ summaryKeysAndHeaders
    /\ Has(result, "error") => onlyNameAndMessage

\* C26, amended: as above, but error holds only the name and message of an
\* error that has a name or a message; an error with neither is the
\* summary's error as it is.
C26_SummaryKeysHeadersError ==
  pc = "responseToJSON" =>
    /\ summaryKeysAndHeaders
    /\ Has(result, "error") =>
         IF Has(raw.error, "name") \/ Has(raw.error, "message")
         THEN onlyNameAndMessage
         ELSE result["error"] = raw.error

\* A response with a body and a mixed-case cookie header next to an error
\* with a stack: the cookie is redacted, the error cut to name and message.
C26_Witness ==
  /\ pc = "responseToJSON"
  /\ Has(raw.response, "body")
  /\ Has(Get(raw.response, "headers", EmptyObj), "cOOkie")
  /\ Has(raw.error, "stack")
  /\ Has(raw.error, "name")
  /\ result["headers"]["cOOkie"] = Redacted
  /\ result["headers"]["authoriZation"] = Redacted
  /\ result["error"] = [name |-> raw.error["name"], message |-> raw.error["message"]]


(***************************************************************************)
(* Strategies that throw (SpecThrows).                                     *)
(***************************************************************************)
\* What the strategies of the attempt that just ended are handed.
endedWith ==
  [response |-> envelopeOf(raw).rawResponse, options |-> options,
   attempts |-> getRetries(options) + 1]

\* Strategy i of the chain is called and one of its functions throws: no
\* strategy before it threw in shouldRetry or answered true, and it throws
\* in shouldRetry, or answers true and throws in one of the other four.
throwsAt(strategies, i) ==
  /\ \A j \in 1..(i - 1) :
       ~throwsIn(strategies[j], "shouldRetry") /\ ~shouldRetry(strategies[j], endedWith)
  /\ \/ throwsIn(strategies[i], "shouldRetry")
     \/ shouldRetry(strategies[i], endedWith) /\ throwsAfterShouldRetry(strategies[i])

\* C27: an exception thrown by a function of a user-supplied strategy is not
\* caught: it propagates to the caller, no later strategy is consulted, no
\* retry is recorded (retries, retryWait and retryResponses are unchanged)
\* and no resubmission is made.
C27_StrategyExceptionPropagates ==
  [][pc = "ended" =>
       LET strategies == getRetryStrategies(options)
       IN \A i \in 1..Len(strategies) :
            throwsAt(strategies, i) =>
              /\ pc' = "done"
              /\ result'.thrown
              /\ result'.value = StrategyError
              /\ decision'.consulted = i
              /\ ~decision'.retry
              /\ options' = options
              /\ adds' = adds
              /\ waits' = waits
              /\ sends' = sends]_vars

\* After one retry by ErrorStatusCode the third custom strategy is not
\* reached: the second one answered and its getDelay threw.
C27_Witness ==
  /\ pc = "done"
  /\ Has(decision, "threw")
  /\ decision.threw = "getDelay"
  /\ decision.consulted = 4
  /\ Len(chain) = 5
  /\ sends = 2
  /\ getRetries(options) = 1
  /\ Len(getRetryResponses(options)) = 1
  /\ result.thrown
  /\ result.value = StrategyError


(***************************************************************************)
(* The protocol of the attempt loop (Spec).                                *)
(***************************************************************************)
\* The final client result of the attempt that ended in raw: an error that
\* carries a response goes through getClientResponse with the error (thrown,
\* with the response's status in its summary), an error without a response
\* through getClientError, a response alone is returned.
finalisedAs(made) ==
  /\ made # NoResult
  /\ (raw.error # NoError /\ raw.response # NoResponse) =>
       /\ made.thrown
       /\ made.value = raw.error
       /\ Has(made.cloudClient, "error")
       /\ Has(made.cloudClient, "status") <=> statusOf(raw.response) # NoStatus
       /\ Has(made.cloudClient, "status") => made.cloudClient["status"] = raw.response["status"]
  /\ (raw.error # NoError /\ raw.response = NoResponse) =>
       /\ made.thrown
       /\ made.value = raw.error
       /\ Has(made.cloudClient, "error")
       /\ ~Has(made.cloudClient, "status")
  /\ raw.error = NoError =>
       /\ ~made.thrown
       /\ made.value = raw.response
       /\ ~Has(made.cloudClient, "error")

\* C28: for every response or error of an attempt the interceptor first
\* finishes end-of-request processing, then asks for the retry decision,
\* then does exactly one of (a) resubmit and hand on that submission's
\* outcome, or (b) produce the final client result; in (b) an error that
\* carries a response is finalised through getClientResponse with the
\* error, an error without a response through getClientError.
C28_AttemptLoopProtocol ==
  [][/\ (decision' # decision \/ result' # result \/ adds' # adds) =>
          /\ pc = "ended"
          /\ Has(getClientOptions(options), "endTime")
          /\ getClientOptions(options)["endTime"] = now - 1
          /\ Len(history) = sends
          /\ history[sends] = raw
     /\ pc = "ended" =>
          \/ /\ decision'.retry
             /\ adds' = adds + 1
             /\ result' = NoResult
             /\ pc' = "sleeping"
          \/ /\ ~decision'.retry
             /\ adds' = adds
             /\ finalisedAs(result')
             /\ pc' = "done"
     /\ sends' # sends =>
          /\ sends' = sends + 1
          /\ sends = adds
          /\ result = NoResult
          /\ pc' = "inflight"
     /\ pc = "done" => UNCHANGED vars]_vars

\* Two attempts were resubmitted, the third ended in an error that carries
\* a response and was thrown with the response's status in its summary.
C28_Witness ==
  /\ pc = "done"
  /\ sends = 3
  /\ adds = 2
  /\ raw.error # NoError
  /\ raw.response # NoResponse
  /\ result.thrown
  /\ result.value = raw.error
  /\ Get(result.cloudClient, "status", NoStatus) = 500


(***************************************************************************)
(* The spelling of the Retry-After header (SpecCalls).                     *)
(***************************************************************************)
\* C29: the Retry-After header is recognised case-insensitively: a response
\* whose header name is any casing of 'retry-after' with numeric seconds s
\* (s >= 1 here; s = 0 is the subject of C7) replaces the ambient delay by
\* s*1000 and forces the ambient multiple to 1 before any strategy is
\* consulted.
C29_RetryAfterInAnyCase ==
  Called =>
    LET headers == Get(raw.response, "headers", EmptyObj)
    IN \A h \in DOMAIN headers :
         (/\ lowerCase(h) = "retry-after"
          /\ parseInt(headers[h]) # NaN
          /\ parseInt(headers[h]) >= 1)
           => /\ decision.retryOptions.delay = parseInt(headers[h]) * 1000
              /\ decision.retryOptions.delayMultiple = 1


(***************************************************************************)
(* EventuallyConsistentUpdate (SpecUpdate).                                *)
(***************************************************************************)
\* C30: the built-in EventuallyConsistentUpdate strategy signals retry
\* exactly when the response status is 200 and the response etag header
\* does not match the request's If-Match header; for any other status (for
\* example 412) it does not signal retry.
C30_UpdateRetriesOnEtagMismatch ==
  (Evaluated /\ pc \in {"sleeping", "done"}
     /\ Get(getClientOptions(request), "eventuallyConsistentUpdate", FALSE)) =>
    LET retryOptions == decision.retryOptions
        mismatch == /\ statusOf(retryOptions.response) = 200
                    /\ headerOf(retryOptions.response, "etag", <<>>)
                         # headerOf(retryOptions.options, "If-Match", <<>>)
    IN /\ shouldRetry(BuiltIn("EventuallyConsistentUpdate"), retryOptions) <=> mismatch
       /\ statusOf(retryOptions.response) = 412 => ~decision.retry
       /\ (mismatch /\ sends < DEFAULT_RETRY_COUNT) => decision.retry


(***************************************************************************)
(* The request time (SpecTimes).                                           *)
(***************************************************************************)
\* The position of the last call of that name, 0 when there was none.
lastCall(name) ==
  LET at == {i \in 1..Len(history) : history[i].call = name}
  IN IF at = {} THEN 0 ELSE CHOOSE i \in at : \A j \in at : j <= i

\* C31: getRequestTime is endTime - startTime when both are set and
\* non-zero and 0 otherwise; every setStartTime resets endTime, so in any
\* sequence of setStartTime / setEndTime calls the request time reads 0
\* from a setStartTime until the next setEndTime, and is never computed
\* from the end time of an attempt before.
C31_RequestTimeOfCurrentAttempt ==
  LET started == lastCall("setStartTime")
      ended == lastCall("setEndTime")
  IN /\ ended < started => getRequestTime(options) = 0
     /\ started = 0 => getRequestTime(options) = 0
     /\ (0 < started /\ started < ended) =>
          getRequestTime(options)
            = IF history[started].time # 0 /\ history[ended].time # 0
              THEN history[ended].time - history[started].time
              ELSE 0

\* A second attempt was started after the first one had ended.
C31_Witness ==
  /\ Len(history) = 3
  /\ history[1] = [call |-> "setStartTime", time |-> 1]
  /\ history[2] = [call |-> "setEndTime", time |-> 2]
  /\ history[3] = [call |-> "setStartTime", time |-> 1]
  /\ getRequestTime(options) = 0


(***************************************************************************)
(* The request id (Spec).                                                  *)
(***************************************************************************)
\* C32: one logical request has one request id: the x-request-id header
\* when supplied, otherwise generated once, and the same id in every stage
\* and attempt and in the final snapshot.
C32_OneRequestId ==
  /\ uuids <= 1
  /\ Has(Get(request, "headers", EmptyObj), "x-request-id") => uuids = 0
  /\ (pc = "done" /\ Has(result, "cloudClient") /\ Has(result.cloudClient, "options")) =>
       result.cloudClient.options["headers"]["x-request-id"] = getRequestId(request, 1)


(***************************************************************************)
(* The request options a strategy returns (SpecOverride).                  *)
(***************************************************************************)
\* C33: the winning strategy's getRequestOptions result is shallow-merged
\* onto the request options for the next attempt: every top-level key it
\* returns replaces the prior value, every key it does not return keeps
\* the value used for the prior attempt (cloudClient, when not returned,
\* is the prior one with the retry booked), and a strategy without
\* getRequestOptions leaves the options unchanged.
C33_RequestOptionsShallowMerged ==
  [][(pc = "ended" /\ pc' = "sleeping") =>
       LET returned == decision'.options
       IN /\ DOMAIN options' = (DOMAIN options) \cup (DOMAIN returned)
          /\ \A k \in (DOMAIN returned) \ {"cloudClient"} : options'[k] = returned[k]
          /\ Has(returned, "cloudClient") =>
               /\ DOMAIN options'["cloudClient"] = DOMAIN returned["cloudClient"]
               /\ \A k \in (DOMAIN returned["cloudClient"]) \ {"retryResponses"} :
                    options'["cloudClient"][k] = returned["cloudClient"][k]
          /\ \A k \in (DOMAIN options) \ ((DOMAIN returned) \cup {"cloudClient"}) :
               options'[k] = options[k]
          /\ ~Has(returned, "cloudClient") =>
               options'["cloudClient"] = addRetry(options, envelopeOf(raw), decision'.delay)["cloudClient"]
          /\ (getRetryStrategies(options)[decision'.winner].kind = "RetryStrategy"
                /\ ~Has(getRetryStrategies(options)[decision'.winner].options, "getRequestOptions"))
               => returned = EmptyObj]_vars

\* The second attempt goes to the url the strategy returned, with the
\* method and the headers of the first.
C33_Witness ==
  /\ pc = "inflight"
  /\ sends = 2
  /\ request["url"] = Url
  /\ options["url"] = "http://other"
  /\ options["method"] = "PUT"
  /\ options["headers"] = request["headers"]
  /\ getRetries(options) = 1

\* The options of a request that runs alone, as its attempt is evaluated:
\* beginBackendRequest and endBackendRequestWith... applied to the options
\* the attempt started from (the clock plays no part in the bookkeeping).
aloneAttempt(o, g) ==
  setEndTime(toRequestConfigCookies(setStartTime(mergeClientOptions(o, g), 0), <<>>, 0), 0)

\* The decision a request that runs alone takes on an outcome.
aloneDecision(o, g, outcome) ==
  retryWithStrategies(aloneAttempt(o, g), envelopeOf(outcome), getRetries(o) + 1)

\* The options a request that runs alone resubmits after a retried outcome.
aloneRetry(o, g, outcome) ==
  LET info == aloneDecision(o, g, outcome)
      bookedOptions == addRetry(aloneAttempt(o, g), envelopeOf(outcome), info.delay)
  IN setRequestOptions(bookedOptions, afterPush(info.options, bookedOptions))

\* The options of a request that runs alone after the first k outcomes of
\* hist were retried.
RECURSIVE alone(_, _, _, _)
alone(o, g, hist, k) ==
  IF k = 0 THEN o ELSE aloneRetry(alone(o, g, hist, k - 1), g, hist[k])

bookkeeping(o) ==
  [retries |-> getRetries(o), retryWait |-> getRetryWait(o),
   retryResponses |-> getRetryResponses(o)]

verdict(info) == [retry |-> info.retry, delay |-> info.delay, winner |-> info.winner]

\* One request's retry state is the one it has when it runs alone on the
\* outcomes it received itself.
isolated(r) ==
  /\ r.adds <= Len(r.history)
  /\ bookkeeping(r.options) = bookkeeping(alone(r.request, global, r.history, r.adds))
  /\ (r.pc = "done") =>
       verdict(r.decision) =
         verdict(aloneDecision(alone(r.request, global, r.history, r.adds), global,
                               r.history[Len(r.history)]))
  /\ (r.pc # "done" /\ r.adds > 0) =>
       verdict(r.decision) =
         verdict(aloneDecision(alone(r.request, global, r.history, r.adds - 1), global,
                               r.history[r.adds]))

RECURSIVE lastStore(_, _, _)
lastStore(same(_, _), c, n) ==
  IF n = 0 THEN 0
  ELSE IF ~isLookup(history[n]) /\ same(history[n].cookie, c) THEN n
       ELSE lastStore(same, c, n - 1)

sameName(a, b) == a["key"] = b["key"]

bothDone == pc = "done" /\ parked.pc = "done"

\* Records held or seen, and answering to one another under same, are one
\* record, and its value is the one stored last before.
lastWriteWins(same(_, _)) ==
  /\ bothDone =>
       \A i \in 1..Len(history) :
         ~isLookup(history[i]) =>
           LET held == {j \in 1..Len(jar) : same(jar[j], history[i].cookie)}
           IN /\ Cardinality(held) <= 1
              /\ \A j \in held :
                   jar[j]["value"] = history[lastStore(same, history[i].cookie, Len(history))].cookie["value"]
  /\ \A i \in 1..Len(history) :
       isLookup(history[i]) =>
         \A j, k \in 1..Len(history[i].seen) :
           /\ (same(history[i].seen[j], history[i].seen[k]) => j = k)
           /\ history[i].seen[j]["value"] =
                IF lastStore(same, history[i].seen[j], i) = 0 THEN "old"
                ELSE history[lastStore(same, history[i].seen[j], i)].cookie["value"]

isPrefix(a, b) == Len(a) <= Len(b) /\ SubSeq(b, 1, Len(a)) = a

\* C36: no strategy undoes the retry bookkeeping: a resubmission adds one to
\* retries and only adds to retryWait and retryResponses, whatever the
\* winning strategy's getRequestOptions returned, and no other step of the
\* request takes any of the three back.
C36_BookkeepingOnlyGrows ==
  [][/\ (pc = "ended" /\ pc' = "sleeping") => getRetries(options') = getRetries(options) + 1
     /\ getRetries(options') >= getRetries(options)
     /\ getRetryWait(options') >= getRetryWait(options)
     /\ isPrefix(getRetryResponses(options), getRetryResponses(options'))]_vars

\* C37: HttpOptions.toJSON is a read-only snapshot: the instance holds the
\* same options after it as before, and getRetryStrategies returns the same
\* chain once toJSON has run as it does on the options as created.
C37_ToJSONReadOnly ==
  pc = "optionsToJSON" =>
    /\ options = request
    /\ getRetryStrategies(options) = getRetryStrategies(request)
    /\ (chain # <<>> => chain = getRetryStrategies(request))

\* C38: the chain is the same for every attempt of a logical request: the
\* chain an attempt's outcome is evaluated with is the chain of the first
\* attempt, the one of the request's options with the global options merged
\* in once, also when the global options supply strategies and are merged
\* again as each attempt begins.
C38_SameChainEveryAttempt ==
  chain # <<>> => chain = getRetryStrategies(mergeClientOptions(request, global))

\* The pairs of a set of <<name, value>> pairs that are under a name.
named(pairs, name) == {p \in pairs : p[1] = name}

\* C39: a resubmitted attempt under handleCookies carries, under every name
\* the caller did not put in the request's own Cookie header, the value the
\* client's jar holds for the URL when the attempt is built: the new value
\* when the retried response replaced the cookie, and nothing when the
\* cookie was deleted with Max-Age=0 or the jar was cleared.
C39_RetryCarriesCurrentJar ==
  [][(handleCookies /\ pc = "begin" /\ pc' = "inflight" /\ sends >= 1) =>
       LET current == jarPairs(jar, getUrl(options), now)
           sent == sentPairs(options')
       IN \A name \in {p[1] : p \in current \cup sent} \ {q[1] : q \in ownPairs(request)} :
            named(sent, name) = named(current, name)]_vars

\* C40: a request configuration that toRequestConfig produced has at most
\* one cookie header, whatever the case of its name: where the caller
\* supplied one, in any spelling, it is the only one, and it holds the
\* merged value.
C40_OneCookieHeader ==
  (pc = "inflight") =>
    LET sentNames == cookieHeaderNames(Get(options, "headers", EmptyObj))
        ownNames == cookieHeaderNames(Get(request, "headers", EmptyObj))
    IN /\ Cardinality(sentNames) <= 1
       /\ ownNames # {} => sentNames = ownNames
====
